---- MODULE Spec2Model ----
(***************************************************************************)
(* dicom-app front end: the pipeline orchestrator of HomePage and TestPage *)
(* (handleProcess, resetState, setupListeners) with the remote calls and   *)
(* event streams it uses, and the tag explorer (TagViewerPage) with its    *)
(* pin set, its derived view and the storage it persists the pins to.      *)
(* Text is modelled as a sequence of one-character strings where the code  *)
(* splits, searches or parses it, and as a string elsewhere.               *)
(***************************************************************************)
EXTENDS Integers, Sequences, FiniteSets, TLC

VARIABLES
    page,                \* which route component is mounted: "home" | "test" | "explorer"
    mounted,             \* the component has not been disposed
    tagsInput,           \* the hidden tag-list configuration text
    inputPath,           \* signal inputPath
    outputPath,          \* signal outputPath
    exportFormats,       \* HomePage signal exportFormats
    doAnonymize,         \* TestPage signal doAnonymize
    doConvert,           \* TestPage signal doConvert
    isProcessing,        \* signal isProcessing
    anonymizeProgress,   \* HomePage signal anonymizeProgress
    convertProgress,     \* HomePage signal convertProgress
    progress,            \* TestPage signal progress
    conversionReport,    \* signal conversionReport
    anonymizationReport, \* signal anonymizationReport
    logs,                \* signal logs
    listenPc,            \* number of listen() calls of setupListeners that resolved
    listeners,           \* event names with a handler registered at the gateway
    cleanups,            \* cleanup functions the component's owner holds
    pending,             \* remote calls in flight, each with its continuation
    remote,              \* remote-call history of the latest run
    run,                 \* the request of the latest run, as read when it started
    attempt,             \* what the latest press of the start button came to
    explorer,            \* TagViewerPage: "off" | "running" | "crashed"
    storedPins,          \* localStorage item "pinnedTags": absent, or its text
    pinnedTags,          \* TagViewerPage signal pinnedTags (a JavaScript value)
    tagRows,             \* TagViewerPage signal tags: the rows of its array
    filterText,          \* TagViewerPage signal filterText
    filteredTags,        \* TagViewerPage memo filteredTags
    filePath,            \* TagViewerPage signal filePath
    loading,             \* TagViewerPage signal loading
    loadError,           \* TagViewerPage signal error
    tagCalls,            \* get_dicom_tags calls in flight, in the order issued
    rowCount,            \* rowVirtualizer: count, the number of rows of the view
    scrollOffset,        \* rowVirtualizer: scroll offset of the scroll element
    viewportExtent,      \* rowVirtualizer: height of the scroll element
    statsOpen,           \* StatsModal: the component is mounted
    statsFolder,         \* StatsModal: props.folderPath
    statsPins,           \* StatsModal: props.pinnedTags
    stats,               \* StatsModal signal stats
    statsLoading,        \* StatsModal signal loading
    statsError,          \* StatsModal signal error
    statsCalls,          \* get_pinned_tags_stats calls fetchStats issued
    statsPending,        \* a get_pinned_tags_stats call is in flight
    folderPath,          \* persisted signal folderPath
    fileList,            \* signal fileList
    fileFilterText,      \* signal fileFilterText
    currentPage,         \* signal currentPage
    listCalls,           \* list_dicom_files calls in flight
    exportFormat,        \* App (per-file loop) signal exportFormat
    selectedFormats,     \* ExportFormatSelector (own state) signal selectedFormats
    dicomProgress,       \* App (per-file loop) signal dicomProgress
    pngProgress,         \* App (per-file loop) signal pngProgress
    logEntries,          \* App (per-file loop) signal logEntries
    dicomError,          \* App signal dicomError
    dicomSummaries,      \* App signal dicomSummaries
    convertRuns,         \* startConvert invocations at an await
    totalFiles,          \* App (folder scan) signal totalFiles
    processedFiles,      \* App (folder scan) signal processedFiles
    currentFileName,     \* App (folder scan) signal currentFileName
    scanRuns,            \* selectAndReadDicomFolder invocations at an await
    params,              \* TagViewerDetailsPage: the route parameters
    details,             \* TagViewerDetailsPage signal details
    detailsPc,           \* where fetchDetails stands
    detailsTrace         \* what fetchDetails did at the gateway, in order

vars == <<page, mounted, tagsInput, inputPath, outputPath, exportFormats,
          doAnonymize, doConvert, isProcessing, anonymizeProgress,
          convertProgress, progress, conversionReport, anonymizationReport,
          logs, listenPc, listeners, cleanups, pending, remote, run, attempt,
          explorer, storedPins, pinnedTags, tagRows, filterText, filteredTags,
          filePath, loading, loadError, tagCalls,
          rowCount, scrollOffset, viewportExtent,
          statsOpen, statsFolder, statsPins, stats, statsLoading, statsError,
          statsCalls, statsPending,
          folderPath, fileList, fileFilterText, currentPage, listCalls,
          exportFormat, selectedFormats, dicomProgress, pngProgress, logEntries,
          dicomError, dicomSummaries, convertRuns,
          totalFiles, processedFiles, currentFileName, scanRuns,
          params, details, detailsPc, detailsTrace>>

\* A nullable value (T | null) is a set with at most one element.
Null == {}
Some(v) == {v}
The(x) == CHOOSE v \in x : TRUE

\* A JavaScript number as parseInt returns it: NaN, or an integer.
NaN == [nan |-> TRUE, n |-> 0]
Num(k) == [nan |-> FALSE, n |-> k]

-----------------------------------------------------------------------------
(* Text helpers: String.prototype.trim / split and parseInt(text, 16).     *)

IsSpace(c) == c = " "

RECURSIVE TrimStart(_)
TrimStart(s) ==
    IF Len(s) > 0 /\ IsSpace(s[1]) THEN TrimStart(Tail(s)) ELSE s

RECURSIVE TrimEnd(_)
TrimEnd(s) ==
    IF Len(s) > 0 /\ IsSpace(s[Len(s)]) THEN TrimEnd(SubSeq(s, 1, Len(s) - 1)) ELSE s

Trim(s) == TrimEnd(TrimStart(s))

\* text.split(sep) for a one-character separator: never empty, "" gives [""]
RECURSIVE Split(_, _)
Split(s, sep) ==
    IF \E i \in 1..Len(s) : s[i] = sep
    THEN LET i == CHOOSE k \in 1..Len(s) :
                      s[k] = sep /\ \A j \in 1..(k - 1) : s[j] # sep
         IN  <<SubSeq(s, 1, i - 1)>> \o Split(SubSeq(s, i + 1, Len(s)), sep)
    ELSE <<s>>

HexChars == <<"0", "1", "2", "3", "4", "5", "6", "7", "8", "9",
              "a", "b", "c", "d", "e", "f">>
HexUpper == <<"0", "1", "2", "3", "4", "5", "6", "7", "8", "9",
              "A", "B", "C", "D", "E", "F">>

IsHexDigit(c) == \E i \in 1..16 : HexChars[i] = c \/ HexUpper[i] = c

HexVal(c) == (CHOOSE i \in 1..16 : HexChars[i] = c \/ HexUpper[i] = c) - 1

\* the longest prefix of s made of radix-16 digits
RECURSIVE HexPrefix(_)
HexPrefix(s) ==
    IF Len(s) > 0 /\ IsHexDigit(s[1]) THEN <<s[1]>> \o HexPrefix(Tail(s)) ELSE <<>>

RECURSIVE HexNumber(_)
HexNumber(z) ==
    IF Len(z) = 0 THEN 0 ELSE 16 * HexNumber(SubSeq(z, 1, Len(z) - 1)) + HexVal(z[Len(z)])

\* the longest prefix of s made of decimal digits
RECURSIVE DecPrefix(_)
DecPrefix(s) ==
    IF Len(s) > 0 /\ s[1] \in {"0", "1", "2", "3", "4", "5", "6", "7", "8", "9"}
    THEN <<s[1]>> \o DecPrefix(Tail(s)) ELSE <<>>

RECURSIVE DecNumber(_)
DecNumber(z) ==
    IF Len(z) = 0 THEN 0 ELSE 10 * DecNumber(SubSeq(z, 1, Len(z) - 1)) + HexVal(z[Len(z)])

\* faulty variant: the radix argument left out, the digits read in base 10
parseInt10(text) ==
    LET s1   == TrimStart(text)
        neg  == Len(s1) > 0 /\ s1[1] = "-"
        s2   == IF Len(s1) > 0 /\ s1[1] \in {"+", "-"} THEN Tail(s1) ELSE s1
        z    == DecPrefix(s2)
    IN  IF Len(z) = 0 THEN NaN
        ELSE IF neg THEN Num(0 - DecNumber(z)) ELSE Num(DecNumber(z))

\* parseInt(text, 16): leading white space, a sign and a 0x prefix are
\* skipped, the digits up to the first non-digit are read, no digit is NaN
parseInt16(text) ==
    LET s1   == TrimStart(text)
        neg  == Len(s1) > 0 /\ s1[1] = "-"
        s2   == IF Len(s1) > 0 /\ s1[1] \in {"+", "-"} THEN Tail(s1) ELSE s1
        s3   == IF Len(s2) >= 2 /\ s2[1] = "0" /\ s2[2] \in {"x", "X"}
                THEN SubSeq(s2, 3, Len(s2)) ELSE s2
        z    == HexPrefix(s3)
    IN  IF Len(z) = 0 THEN NaN
        ELSE IF neg THEN Num(0 - HexNumber(z)) ELSE Num(HexNumber(z))

isNaN(v) == v.nan

-----------------------------------------------------------------------------
(* Tag-list parsing, as inlined in both handleProcess functions.           *)

ParseOk(tags) == [ok |-> TRUE, tags |-> tags, error |-> ""]
ParseError(msg) == [ok |-> FALSE, tags |-> <<>>, error |-> msg]

\* for (const raw of rawTags) { ... tags.push([group, element]) }
RECURSIVE ParseItems(_, _)
ParseItems(rawTags, tags) ==
    IF rawTags = <<>> THEN ParseOk(tags)
    ELSE LET raw   == Head(rawTags)
             parts == Split(Trim(raw), ",")
         IN  IF Len(parts) # 2 THEN ParseError("Invalid tag format")
             ELSE LET group   == parseInt16(parts[1])
                      element == parseInt16(parts[2])
                  IN  IF isNaN(group) \/ isNaN(element)
                      THEN ParseError("Invalid hex values")
                      ELSE ParseItems(Tail(rawTags), Append(tags, <<group.n, element.n>>))

ParseTags(text) == ParseItems(Split(text, ";"), <<>>)

-----------------------------------------------------------------------------
(* Bounds and the values the environment (user, backend) may supply.       *)

MaxTotal == 2        \* files in a batch: progress.current ranges over 1..MaxTotal
MaxLogs == 2         \* log entries the event streams deliver before the model stops them

InputFolders == {"/in"}
OutputFolders == {"/out"}
BackendErrors == {"backend failure"}

T(a, b, c, d) == <<a, b, c, d>>
Item(g, e) == g \o <<",">> \o e
Sep == <<";", " ">>

\* "0010,0010; 0010,0020; 0010,0030; 0008,0080; 0008,0090"
DefaultTagsInput ==
    Item(T("0","0","1","0"), T("0","0","1","0")) \o Sep \o
    Item(T("0","0","1","0"), T("0","0","2","0")) \o Sep \o
    Item(T("0","0","1","0"), T("0","0","3","0")) \o Sep \o
    Item(T("0","0","0","8"), T("0","0","8","0")) \o Sep \o
    Item(T("0","0","0","8"), T("0","0","9","0"))

replacementValue == "ANONYMIZED"
skipExcel == FALSE

ProgressPayloads ==
    {[current |-> c, total |-> MaxTotal, filename |-> "f.dcm", status |-> "success"] :
        c \in 1..MaxTotal}

LogEntries ==
    {[file_name |-> "f.dcm", success |-> ok, conversion_type |-> "DICOM"] :
        ok \in BOOLEAN}

AnonymizationReports ==
    {[total |-> MaxTotal, successful |-> MaxTotal, failed |-> 0,
      output_folder |-> "/out/in_output"],
     [total |-> MaxTotal, successful |-> 0, failed |-> MaxTotal,
      output_folder |-> "/out/scan_output"]}

ConversionReports ==
    {[total |-> MaxTotal, successful |-> MaxTotal - f, failed |-> f,
      output_folder |-> "/out/in_output"] : f \in {0, MaxTotal}}

-----------------------------------------------------------------------------
(* Requests.                                                               *)

Includes(seq, x) == \E i \in 1..Len(seq) : seq[i] = x

\* faulty variant: the folder compared with a text no folder selection ever holds
FalsyUndefined(text) == text = "undefined"

\* !text : the empty string is the only falsy string
Falsy(text) == text = ""

Call(cmd, args) == [cmd |-> cmd, args |-> args]

\* faulty variant: the convert branch set whenever conversion is requested, so that
\* one call carries both stages
ProcessInputBothAtOnce(doA, doC, input, output, tags) ==
    [anonymize |-> IF doA
                   THEN Some([input |-> input, output |-> output, tags |-> tags,
                              replacement |-> "ANONYMIZED"])
                   ELSE Null,
     convert   |-> IF doC
                   THEN Some([input |-> input, output |-> output,
                              skip_excel |-> FALSE, flatten_output |-> FALSE])
                   ELSE Null]

\* HomePage: the processInput object of the first process_dicom call
ProcessInput(doA, doC, input, output, tags) ==
    [anonymize |-> IF doA
                   THEN Some([input |-> input, output |-> output, tags |-> tags,
                              replacement |-> replacementValue])
                   ELSE Null,
     convert   |-> IF doC /\ ~doA
                   THEN Some([input |-> input, output |-> output,
                              skip_excel |-> skipExcel, flatten_output |-> FALSE])
                   ELSE Null]

\* faulty variant: the conversion reads the stage-1 output folder itself, not its
\* dicom_file subfolder
ConvertAfterAnonymizeNoSubpath(report) ==
    [anonymize |-> Null,
     convert   |-> Some([input |-> report.output_folder,
                         output |-> report.output_folder,
                         skip_excel |-> FALSE, flatten_output |-> TRUE])]

\* HomePage: the input of the second process_dicom call
ConvertAfterAnonymize(report) ==
    [anonymize |-> Null,
     convert   |-> Some([input |-> report.output_folder \o "/dicom_file",
                         output |-> report.output_folder,
                         skip_excel |-> skipExcel, flatten_output |-> TRUE])]

\* TestPage: the arguments of anonymize_dicom and convert_dicom
AnonymizeArgs(input, output, tags) ==
    [input |-> input, output |-> output, tags |-> tags, replacement |-> replacementValue]

ConvertArgs(currentInput, currentOutput, flattenConvert) ==
    [input |-> currentInput, output |-> currentOutput,
     skipExcel |-> skipExcel, flattenOutput |-> flattenConvert]

\* What process_dicom may answer to a request: a report, or none, for each
\* stage the request carries, and none for a stage it does not carry.
ProcessReports(input) ==
    [anonymization : IF input.anonymize # Null
                     THEN {Null} \cup {Some(r) : r \in AnonymizationReports}
                     ELSE {Null},
     conversion    : IF input.convert # Null
                     THEN {Null} \cup {Some(r) : r \in ConversionReports}
                     ELSE {Null}]

\* history entries of the latest run
Called(c) == [ev |-> "call", call |-> c, result |-> Null]
Resolved(c, r) == [ev |-> "resolve", call |-> c, result |-> Some(r)]
Rejected(c) == [ev |-> "reject", call |-> c, result |-> Null]

\* a pending remote call and the continuation that awaits it
Pending(k, c, doC, first) == [k |-> k, call |-> c, doConvert |-> doC, report |-> first]

RemoveAt(seq, i) == SubSeq(seq, 1, i - 1) \o SubSeq(seq, i + 1, Len(seq))

-----------------------------------------------------------------------------
(* State.                                                                  *)

\* the state of the tag explorer, which no step of the pipeline pages touches
explorerVars == <<explorer, storedPins, pinnedTags, tagRows, filterText, filteredTags,
                  filePath, loading, loadError, tagCalls>>

\* the row virtualizer of the tag table, and the statistics modal
windowVars == <<rowCount, scrollOffset, viewportExtent>>
statsVars == <<statsOpen, statsFolder, statsPins, stats, statsLoading, statsError,
               statsCalls, statsPending>>

\* the file list of the tag explorer and its paging
filesVars == <<folderPath, fileList, fileFilterText, currentPage, listCalls>>

\* the per-file conversion loop and the folder scan of the earlier App
\* components, and the tag-details page
legacyVars  == <<exportFormat, selectedFormats, dicomProgress, pngProgress, logEntries,
                 convertRuns>>
scanVars    == <<totalFiles, processedFiles, currentFileName, scanRuns>>
detailsVars == <<params, details, detailsPc, detailsTrace>>

standaloneVars == <<legacyVars, scanVars, detailsVars, dicomError, dicomSummaries>>

\* what the pipeline pages never touch
restVars == <<filesVars, standaloneVars>>

envVars  == <<page, tagsInput, explorerVars, windowVars, statsVars, restVars>>
viewVars == <<mounted, listenPc, listeners, cleanups>>
formVars == <<inputPath, outputPath, exportFormats, doAnonymize, doConvert>>
progVars == <<anonymizeProgress, convertProgress, progress>>
repVars  == <<conversionReport, anonymizationReport>>
callVars == <<pending, remote, run>>

NoRun == [started |-> FALSE, doAnonymize |-> FALSE, doConvert |-> FALSE,
          input |-> "", output |-> ""]
RunOf(doA, doC) == [started |-> TRUE, doAnonymize |-> doA, doConvert |-> doC,
                    input |-> inputPath, output |-> outputPath]

\* the names setupListeners subscribes to, in the order of its listen() calls
ListenNames ==
    IF page = "home"
    THEN <<"conversion_progress", "anonymization_progress", "log_event">>
    ELSE <<"conversion_progress", "anonymization_progress">>

\* the owner onCleanup() finds when setupListeners resumes after its awaits:
\* the component function has returned by then, so there is none
OwnerAfterAwait == Null

\* onCleanup(fn): kept by the current owner, dropped when there is no owner
OnCleanup(owned, owner, fn) == IF owner = Null THEN owned ELSE owned \cup {fn}

\* TagViewerPage not created: its signals hold their initial values
ExplorerOff ==
    /\ explorer = "off"
    /\ pinnedTags = [j |-> "array", items |-> <<>>]
    /\ tagRows = <<>>
    /\ filterText = <<>>
    /\ filteredTags = <<>>
    /\ filePath = ""
    /\ loading = FALSE
    /\ loadError = Null
    /\ tagCalls = <<>>

\* no folder opened: no file listed, the first page shown
FilesOff ==
    /\ folderPath = ""
    /\ fileList = <<>>
    /\ fileFilterText = <<>>
    /\ currentPage = 1
    /\ listCalls = <<>>

StandaloneOff ==
    /\ exportFormat = [j |-> "string", s |-> "DICOM"]
    /\ selectedFormats = <<"DICOM">>
    /\ dicomProgress = [processed |-> 0, total |-> 0]
    /\ pngProgress = [processed |-> 0, total |-> 0]
    /\ logEntries = <<>>
    /\ dicomError = ""
    /\ dicomSummaries = <<>>
    /\ convertRuns = <<>>
    /\ totalFiles = 0
    /\ processedFiles = 0
    /\ currentFileName = ""
    /\ scanRuns = <<>>
    /\ params = [group |-> <<>>, element |-> <<>>]
    /\ details = Null
    /\ detailsPc = "off"
    /\ detailsTrace = <<>>

RestOff == FilesOff /\ StandaloneOff

\* no table rendered: the virtualizer has nothing to lay out
WindowOff ==
    /\ rowCount = 0
    /\ scrollOffset = 0
    /\ viewportExtent = 0

\* StatsModal not created: its signals hold their initial values
StatsOff ==
    /\ statsOpen = FALSE
    /\ statsFolder = ""
    /\ statsPins = [j |-> "array", items |-> <<>>]
    /\ stats = <<>>
    /\ statsLoading = FALSE
    /\ statsError = Null
    /\ statsCalls = <<>>
    /\ statsPending = FALSE

InitWith(inputs) ==
    /\ page \in {"home", "test"}
    /\ storedPins = Null
    /\ ExplorerOff
    /\ WindowOff
    /\ StatsOff
    /\ RestOff
    /\ mounted = TRUE
    /\ tagsInput \in inputs
    /\ inputPath \in (IF page = "home" THEN {""} \cup InputFolders ELSE {""})
    /\ outputPath \in (IF page = "home" THEN {""} \cup OutputFolders ELSE {""})
    /\ exportFormats = <<"DICOM">>
    /\ doAnonymize = TRUE
    /\ doConvert = TRUE
    /\ isProcessing = FALSE
    /\ anonymizeProgress = Null
    /\ convertProgress = Null
    /\ progress = Null
    /\ conversionReport = Null
    /\ anonymizationReport = Null
    /\ logs = <<>>
    /\ listenPc = 0
    /\ listeners = {}
    /\ cleanups = {}
    /\ pending = <<>>
    /\ remote = <<>>
    /\ run = NoRun
    /\ attempt = "none"

Init == InitWith({DefaultTagsInput})

-----------------------------------------------------------------------------
(* The form: folder selection, export formats, operation check boxes.      *)

SetInputPath(path) ==
    /\ mounted
    /\ inputPath' = path
    /\ attempt' = "none"
    /\ UNCHANGED <<envVars, viewVars, outputPath, exportFormats, doAnonymize, doConvert,
                   isProcessing, progVars, repVars, logs, callVars>>

SetOutputPath(path) ==
    /\ mounted
    /\ outputPath' = path
    /\ attempt' = "none"
    /\ UNCHANGED <<envVars, viewVars, inputPath, exportFormats, doAnonymize, doConvert,
                   isProcessing, progVars, repVars, logs, callVars>>

\* current.filter((f) => f !== format)
Without(seq, x) == SelectSeq(seq, LAMBDA f : f # x)

\* faulty variant: the only selected format can be removed
UpdatedAllowingNone(current, format) ==
    IF Includes(current, format) THEN Some(Without(current, format))
    ELSE Some(Append(current, format))

\* the list toggleFormat hands to props.onChange, Null when it does not call it
Updated(current, format) ==
    IF Includes(current, format)
    THEN IF Len(current) > 1 THEN Some(Without(current, format)) ELSE Null
    ELSE Some(Append(current, format))

toggleFormat(format) ==
    /\ page = "home" /\ mounted
    /\ exportFormats' =
          IF Updated(exportFormats, format) = Null THEN exportFormats
          ELSE The(Updated(exportFormats, format))
    /\ attempt' = "none"
    /\ UNCHANGED <<envVars, viewVars, inputPath, outputPath, doAnonymize, doConvert,
                   isProcessing, progVars, repVars, logs, callVars>>

setDoAnonymize(checked) ==
    /\ page = "test" /\ mounted
    /\ doAnonymize' = checked
    /\ attempt' = "none"
    /\ UNCHANGED <<envVars, viewVars, inputPath, outputPath, exportFormats, doConvert,
                   isProcessing, progVars, repVars, logs, callVars>>

setDoConvert(checked) ==
    /\ page = "test" /\ mounted
    /\ doConvert' = checked
    /\ attempt' = "none"
    /\ UNCHANGED <<envVars, viewVars, inputPath, outputPath, exportFormats, doAnonymize,
                   isProcessing, progVars, repVars, logs, callVars>>

-----------------------------------------------------------------------------
(* setupListeners and the disposal of the component.                       *)

\* one awaited listen() resolves; after the last one onCleanup is called
ListenResolved ==
    /\ listenPc < Len(ListenNames)
    /\ listenPc' = listenPc + 1
    /\ listeners' = listeners \cup {ListenNames[listenPc + 1]}
    /\ cleanups' = IF listenPc + 1 = Len(ListenNames)
                   THEN OnCleanup(cleanups, OwnerAfterAwait,
                                  {ListenNames[i] : i \in 1..Len(ListenNames)})
                   ELSE cleanups
    /\ attempt' = "none"
    /\ UNCHANGED <<envVars, mounted, formVars, isProcessing, progVars, repVars, logs,
                   callVars>>

\* the router disposes of the component: the owner runs the cleanups it holds
Dismantle ==
    /\ mounted
    /\ mounted' = FALSE
    /\ listeners' = listeners \ UNION cleanups
    /\ cleanups' = {}
    /\ attempt' = "none"
    /\ UNCHANGED <<envVars, listenPc, formVars, isProcessing, progVars, repVars, logs,
                   callVars>>

-----------------------------------------------------------------------------
(* Event handlers registered by setupListeners.                            *)

\* TestPage: `[${current}/${total}] ${status}: ${filename}`
ProgressLine(payload) ==
    "[" \o ToString(payload.current) \o "/" \o ToString(payload.total) \o "] "
        \o payload.status \o ": " \o payload.filename

ProgressLines == {ProgressLine(p) : p \in ProgressPayloads}

\* the lines of the TestPage log that event handlers appended
Delivered(log) == Cardinality({i \in 1..Len(log) : log[i] \in ProgressLines})

\* faulty variant: the highest current seen is kept, a lower one is dropped
HomeConversionProgressHighest(payload) ==
    /\ page = "home" /\ "conversion_progress" \in listeners
    /\ convertProgress' =
          IF convertProgress # Null /\ The(convertProgress).current > payload.current
          THEN convertProgress ELSE Some(payload)
    /\ attempt' = "none"
    /\ UNCHANGED <<envVars, viewVars, formVars, isProcessing, anonymizeProgress, progress,
                   repVars, logs, callVars>>

HomeConversionProgress(payload) ==
    /\ page = "home" /\ "conversion_progress" \in listeners
    /\ convertProgress' = Some(payload)
    /\ attempt' = "none"
    /\ UNCHANGED <<envVars, viewVars, formVars, isProcessing, anonymizeProgress, progress,
                   repVars, logs, callVars>>

HomeAnonymizationProgress(payload) ==
    /\ page = "home" /\ "anonymization_progress" \in listeners
    /\ anonymizeProgress' = Some(payload)
    /\ attempt' = "none"
    /\ UNCHANGED <<envVars, viewVars, formVars, isProcessing, convertProgress, progress,
                   repVars, logs, callVars>>

\* faulty variant: the entry put in front of the sequence
HomeLogEventPrepend(entry) ==
    /\ page = "home" /\ "log_event" \in listeners
    /\ Len(logs) < MaxLogs
    /\ logs' = <<entry>> \o logs
    /\ attempt' = "none"
    /\ UNCHANGED <<envVars, viewVars, formVars, isProcessing, progVars, repVars, callVars>>

HomeLogEvent(entry) ==
    /\ page = "home" /\ "log_event" \in listeners
    /\ Len(logs) < MaxLogs
    /\ logs' = Append(logs, entry)
    /\ attempt' = "none"
    /\ UNCHANGED <<envVars, viewVars, formVars, isProcessing, progVars, repVars, callVars>>

TestProgress(name, payload) ==
    /\ page = "test" /\ name \in listeners
    /\ Delivered(logs) < MaxLogs
    /\ progress' = Some(payload)
    /\ logs' = Append(logs, ProgressLine(payload))
    /\ attempt' = "none"
    /\ UNCHANGED <<envVars, viewVars, formVars, isProcessing, anonymizeProgress,
                   convertProgress, repVars, callVars>>

TestConversionProgress(payload) == TestProgress("conversion_progress", payload)

TestAnonymizationProgress(payload) == TestProgress("anonymization_progress", payload)

-----------------------------------------------------------------------------
(* HomePage.handleProcess, entered from the start button.                  *)

\* faulty variant: the button not disabled while a run is in progress
HomeStartDisabledNotBusy == Falsy(inputPath) \/ Falsy(outputPath)

\* disabled={isProcessing() || !inputPath() || !outputPath()}
HomeStartDisabled == isProcessing \/ Falsy(inputPath) \/ Falsy(outputPath)

\* a press that changes nothing: the button is disabled, or the handler
\* returns before setIsProcessing(true)
Ignored(outcome) ==
    /\ attempt' = outcome
    /\ UNCHANGED <<isProcessing, progVars, repVars, logs, callVars>>

HomeHandleProcess ==
    /\ page = "home" /\ mounted
    /\ UNCHANGED <<envVars, viewVars, formVars, progress>>
    /\ IF HomeStartDisabled THEN Ignored("disabled")
       ELSE IF Falsy(inputPath) \/ Falsy(outputPath) THEN Ignored("rejected")
       ELSE LET doA == Includes(exportFormats, "DICOM")
                doC == Includes(exportFormats, "PNG")
            IN  IF ~doA /\ ~doC THEN Ignored("rejected")
                ELSE LET parsed == IF doA THEN ParseTags(tagsInput) ELSE ParseOk(<<>>)
                         c == Call("process_dicom",
                                   [input |-> ProcessInput(doA, doC, inputPath,
                                                           outputPath, parsed.tags)])
                     IN  \* setIsProcessing(true); resetState();
                         /\ anonymizeProgress' = Null
                         /\ convertProgress' = Null
                         /\ conversionReport' = Null
                         /\ anonymizationReport' = Null
                         /\ logs' = <<>>
                         /\ run' = RunOf(doA, doC)
                         /\ IF ~parsed.ok
                            THEN \* alert; setIsProcessing(false); return
                                 /\ attempt' = "parse_error"
                                 /\ isProcessing' = FALSE
                                 /\ remote' = <<>>
                                 /\ UNCHANGED pending
                            ELSE /\ attempt' = "started"
                                 /\ isProcessing' = TRUE
                                 /\ remote' = <<Called(c)>>
                                 /\ pending' = Append(pending, Pending("first", c, doC, Null))

\* faulty variant: the first response's anonymization report stored where its
\* conversion report is missing
StoredConversionOrAnonymization(first, second) ==
    IF first.conversion # Null THEN first.conversion
    ELSE IF second # Null THEN The(second).conversion ELSE first.anonymization

\* what the run stores as conversion report: the second call's conversion,
\* then the first call's conversion over it (none: nothing is stored)
StoredConversion(first, second) ==
    IF first.conversion # Null THEN first.conversion
    ELSE IF second # Null THEN The(second).conversion ELSE Null

\* faulty variant: the run is not marked as ended
HomeFinishStillProcessing(i, stored, event) ==
    /\ conversionReport' = IF stored # Null THEN stored ELSE conversionReport
    /\ convertProgress' = IF stored # Null THEN Null ELSE convertProgress
    /\ isProcessing' = isProcessing
    /\ pending' = RemoveAt(pending, i)
    /\ remote' = Append(remote, event)

\* the rest of handleProcess from `if (report.conversion)` to `finally`
HomeFinish(i, stored, event) ==
    /\ conversionReport' = IF stored # Null THEN stored ELSE conversionReport
    /\ convertProgress' = IF stored # Null THEN Null ELSE convertProgress
    /\ isProcessing' = FALSE
    /\ pending' = RemoveAt(pending, i)
    /\ remote' = Append(remote, event)

\* faulty variant: a stage-1 report with failed files ends the run
HomeInvokeResolvedStopsOnFailure(i, report) ==
    /\ page = "home"
    /\ i \in 1..Len(pending)
    /\ report \in ProcessReports(pending[i].call.args.input)
    /\ attempt' = "none"
    /\ UNCHANGED <<envVars, viewVars, formVars, progress, logs, run>>
    /\ LET p == pending[i]
       IN  IF p.k = "first"
           THEN IF report.anonymization # Null
                THEN /\ anonymizationReport' = report.anonymization
                     /\ anonymizeProgress' = Null
                     /\ IF p.doConvert /\ The(report.anonymization).failed = 0
                        THEN LET c == Call("process_dicom",
                                           [input |-> ConvertAfterAnonymize(
                                                          The(report.anonymization))])
                             IN  /\ pending' = [pending EXCEPT
                                                  ![i] = Pending("second", c, p.doConvert,
                                                                 Some(report))]
                                 /\ remote' = remote \o <<Resolved(p.call, report), Called(c)>>
                                 /\ UNCHANGED <<isProcessing, conversionReport,
                                                convertProgress>>
                        ELSE HomeFinish(i, StoredConversion(report, Null),
                                        Resolved(p.call, report))
                ELSE /\ UNCHANGED <<anonymizationReport, anonymizeProgress>>
                     /\ HomeFinish(i, StoredConversion(report, Null),
                                   Resolved(p.call, report))
           ELSE /\ UNCHANGED <<anonymizationReport, anonymizeProgress>>
                /\ HomeFinish(i, StoredConversion(The(p.report), Some(report)),
                              Resolved(p.call, report))

HomeInvokeResolved(i, report) ==
    /\ page = "home"
    /\ i \in 1..Len(pending)
    /\ report \in ProcessReports(pending[i].call.args.input)
    /\ attempt' = "none"
    /\ UNCHANGED <<envVars, viewVars, formVars, progress, logs, run>>
    /\ LET p == pending[i]
       IN  IF p.k = "first"
           THEN IF report.anonymization # Null
                THEN /\ anonymizationReport' = report.anonymization
                     /\ anonymizeProgress' = Null
                     /\ IF p.doConvert
                        THEN LET c == Call("process_dicom",
                                           [input |-> ConvertAfterAnonymize(
                                                          The(report.anonymization))])
                             IN  /\ pending' = [pending EXCEPT
                                                  ![i] = Pending("second", c, p.doConvert,
                                                                 Some(report))]
                                 /\ remote' = remote \o <<Resolved(p.call, report), Called(c)>>
                                 /\ UNCHANGED <<isProcessing, conversionReport,
                                                convertProgress>>
                        ELSE HomeFinish(i, StoredConversion(report, Null),
                                        Resolved(p.call, report))
                ELSE /\ UNCHANGED <<anonymizationReport, anonymizeProgress>>
                     /\ HomeFinish(i, StoredConversion(report, Null),
                                   Resolved(p.call, report))
           ELSE \* the second call: report is the code's conversionReport
                /\ UNCHANGED <<anonymizationReport, anonymizeProgress>>
                /\ HomeFinish(i, StoredConversion(The(p.report), Some(report)),
                              Resolved(p.call, report))

\* faulty variant: no finally block, isProcessing is left as it was
HomeInvokeRejectedNoFinally(i) ==
    /\ page = "home"
    /\ i \in 1..Len(pending)
    /\ pending' = RemoveAt(pending, i)
    /\ remote' = Append(remote, Rejected(pending[i].call))
    /\ attempt' = "none"
    /\ UNCHANGED <<envVars, viewVars, formVars, isProcessing, progVars, repVars, logs, run>>

\* catch (error) { console.error(error) } finally { setIsProcessing(false) }
HomeInvokeRejected(i) ==
    /\ page = "home"
    /\ i \in 1..Len(pending)
    /\ isProcessing' = FALSE
    /\ pending' = RemoveAt(pending, i)
    /\ remote' = Append(remote, Rejected(pending[i].call))
    /\ attempt' = "none"
    /\ UNCHANGED <<envVars, viewVars, formVars, progVars, repVars, logs, run>>

-----------------------------------------------------------------------------
(* TestPage.handleProcess, entered from the start button.                  *)

\* disabled={isProcessing() || !inputPath() || !outputPath() ||
\*           (!doAnonymize() && !doConvert())}
TestStartDisabled ==
    isProcessing \/ Falsy(inputPath) \/ Falsy(outputPath) \/ (~doAnonymize /\ ~doConvert)

TestHandleProcess ==
    /\ page = "test" /\ mounted
    /\ UNCHANGED <<envVars, viewVars, formVars, anonymizeProgress, convertProgress>>
    /\ IF TestStartDisabled THEN Ignored("disabled")
       ELSE IF Falsy(inputPath) \/ Falsy(outputPath) THEN Ignored("rejected")
       ELSE IF ~doAnonymize /\ ~doConvert THEN Ignored("rejected")
       ELSE LET parsed == IF doAnonymize THEN ParseTags(tagsInput) ELSE ParseOk(<<>>)
                c == IF doAnonymize
                     THEN Call("anonymize_dicom",
                               AnonymizeArgs(inputPath, outputPath, parsed.tags))
                     ELSE Call("convert_dicom", ConvertArgs(inputPath, outputPath, FALSE))
            IN  \* setIsProcessing(true); resetState();
                /\ progress' = Null
                /\ conversionReport' = Null
                /\ anonymizationReport' = Null
                /\ run' = RunOf(doAnonymize, doConvert)
                /\ IF ~parsed.ok
                   THEN \* alert; setIsProcessing(false); return
                        /\ attempt' = "parse_error"
                        /\ isProcessing' = FALSE
                        /\ logs' = <<>>
                        /\ remote' = <<>>
                        /\ UNCHANGED pending
                   ELSE /\ attempt' = "started"
                        /\ isProcessing' = TRUE
                        /\ logs' = IF doAnonymize THEN <<"Starting Anonymization...">>
                                   ELSE <<"Starting Conversion...">>
                        /\ remote' = <<Called(c)>>
                        /\ pending' = Append(pending,
                                             Pending(IF doAnonymize THEN "anonymize"
                                                     ELSE "convert", c, doConvert, Null))

TestInvokeResolved(i, report) ==
    /\ page = "test"
    /\ i \in 1..Len(pending)
    /\ attempt' = "none"
    /\ UNCHANGED <<envVars, viewVars, formVars, progVars, run>>
    /\ LET p == pending[i]
       IN  IF p.k = "anonymize"
           THEN /\ report \in AnonymizationReports
                /\ anonymizationReport' = Some(report)
                /\ IF doConvert    \* the signal as it is when the call resolves
                   THEN LET c == Call("convert_dicom",
                                      ConvertArgs(report.output_folder \o "/dicom_file",
                                                  report.output_folder, TRUE))
                        IN  /\ logs' = Append(logs, "Starting Conversion...")
                            /\ pending' = [pending EXCEPT
                                             ![i] = Pending("convert", c, doConvert, Null)]
                            /\ remote' = remote \o <<Resolved(p.call, report), Called(c)>>
                            /\ UNCHANGED <<isProcessing, conversionReport>>
                   ELSE /\ logs' = Append(logs, "Processing completed successfully!")
                        /\ isProcessing' = FALSE
                        /\ pending' = RemoveAt(pending, i)
                        /\ remote' = Append(remote, Resolved(p.call, report))
                        /\ UNCHANGED conversionReport
           ELSE /\ report \in ConversionReports
                /\ conversionReport' = Some(report)
                /\ logs' = Append(logs, "Processing completed successfully!")
                /\ isProcessing' = FALSE
                /\ pending' = RemoveAt(pending, i)
                /\ remote' = Append(remote, Resolved(p.call, report))
                /\ UNCHANGED anonymizationReport

\* catch (error) { setLogs(... `Error: ${error}`) } finally { setIsProcessing(false) }
TestInvokeRejected(i, error) ==
    /\ page = "test"
    /\ i \in 1..Len(pending)
    /\ logs' = Append(logs, "Error: " \o error)
    /\ isProcessing' = FALSE
    /\ pending' = RemoveAt(pending, i)
    /\ remote' = Append(remote, Rejected(pending[i].call))
    /\ attempt' = "none"
    /\ UNCHANGED <<envVars, viewVars, formVars, progVars, repVars, run>>

-----------------------------------------------------------------------------
(* The program.                                                            *)

Next ==
    \/ \E path \in InputFolders : SetInputPath(path)
    \/ \E path \in OutputFolders : SetOutputPath(path)
    \/ \E format \in {"DICOM", "PNG"} : toggleFormat(format)
    \/ \E checked \in BOOLEAN : setDoAnonymize(checked)
    \/ \E checked \in BOOLEAN : setDoConvert(checked)
    \/ ListenResolved
    \/ \E payload \in ProgressPayloads : HomeConversionProgress(payload)
    \/ \E payload \in ProgressPayloads : HomeAnonymizationProgress(payload)
    \/ \E entry \in LogEntries : HomeLogEvent(entry)
    \/ \E payload \in ProgressPayloads : TestConversionProgress(payload)
    \/ \E payload \in ProgressPayloads : TestAnonymizationProgress(payload)
    \/ HomeHandleProcess
    \/ /\ page = "home"
       /\ \E i \in 1..Len(pending) :
             \E report \in ProcessReports(pending[i].call.args.input) :
                HomeInvokeResolved(i, report)
    \/ \E i \in 1..Len(pending) : HomeInvokeRejected(i)
    \/ TestHandleProcess
    \/ \E i \in 1..Len(pending) :
          \E report \in AnonymizationReports \cup ConversionReports :
             TestInvokeResolved(i, report)
    \/ \E i \in 1..Len(pending) : \E error \in BackendErrors : TestInvokeRejected(i, error)

Spec == Init /\ [][Next]_vars

\* The router disposing of the page, with the listener set-up and the event
\* handlers: Dismantle changes nothing a run reads, so Spec leaves it out.
NextView ==
    \/ ListenResolved
    \/ Dismantle
    \/ \E payload \in ProgressPayloads : HomeConversionProgress(payload)
    \/ \E payload \in ProgressPayloads : HomeAnonymizationProgress(payload)
    \/ \E entry \in LogEntries : HomeLogEvent(entry)
    \/ \E payload \in ProgressPayloads : TestConversionProgress(payload)
    \/ \E payload \in ProgressPayloads : TestAnonymizationProgress(payload)

SpecView == Init /\ [][NextView]_vars

-----------------------------------------------------------------------------
(* Reading the remote-call history of the latest run.                      *)

IsAnonymizeCall(c) ==
    \/ c.cmd = "anonymize_dicom"
    \/ c.cmd = "process_dicom" /\ c.args.input.anonymize # Null

IsConvertCall(c) ==
    \/ c.cmd = "convert_dicom"
    \/ c.cmd = "process_dicom" /\ c.args.input.convert # Null

StageOf(c) ==
    IF IsAnonymizeCall(c) /\ IsConvertCall(c) THEN "both"
    ELSE IF IsAnonymizeCall(c) THEN "anonymize"
    ELSE IF IsConvertCall(c) THEN "convert" ELSE "none"

Trace == [j \in 1..Len(remote) |-> <<remote[j].ev, StageOf(remote[j].call)>>]

BothOrder == <<<<"call", "anonymize">>, <<"resolve", "anonymize">>,
               <<"call", "convert">>, <<"resolve", "convert">>>>

\* the conversion request a call carries: input, output, flatten
ConvertRequest(c) ==
    IF c.cmd = "convert_dicom"
    THEN [input |-> c.args.input, output |-> c.args.output, flatten |-> c.args.flattenOutput]
    ELSE LET r == The(c.args.input.convert)
         IN  [input |-> r.input, output |-> r.output, flatten |-> r.flatten_output]

\* the anonymization report a resolved stage-1 call returned
StageOneReport(e) ==
    IF e.call.cmd = "anonymize_dicom" THEN The(e.result)
    ELSE The(The(e.result).anonymization)

BothRequested == run.started /\ run.doAnonymize /\ run.doConvert

-----------------------------------------------------------------------------
(* C1: in a run that requests both stages the remote calls come in the     *)
(* order anonymize-call, anonymize-response, convert-call, convert-response:*)
(* the history is a prefix of that order, or such a prefix ended by the    *)
(* rejection of the call it was waiting for.                               *)
C1_StageOrder ==
    BothRequested =>
       \E n \in 0..4 :
          \/ Trace = SubSeq(BothOrder, 1, n)
          \/ /\ n \in {1, 3}
             /\ Trace = Append(SubSeq(BothOrder, 1, n), <<"reject", BothOrder[n][2]>>)

C1_Witness == BothRequested /\ Trace = BothOrder

(* C2: the conversion request is (report.output_folder + "/dicom_file",    *)
(* report.output_folder, flatten) after a stage-1 report when both stages  *)
(* are requested, and (caller input, caller output, no flatten) when only  *)
(* conversion is requested.                                                *)
C2_ConvertRequest ==
    \A j \in 1..Len(remote) :
       (remote[j].ev = "call" /\ IsConvertCall(remote[j].call)) =>
          /\ BothRequested =>
                /\ j > 1 /\ remote[j - 1].ev = "resolve"
                /\ LET report == StageOneReport(remote[j - 1])
                   IN  ConvertRequest(remote[j].call) =
                          [input |-> report.output_folder \o "/dicom_file",
                           output |-> report.output_folder, flatten |-> TRUE]
          /\ (run.started /\ ~run.doAnonymize /\ run.doConvert) =>
                ConvertRequest(remote[j].call) =
                   [input |-> run.input, output |-> run.output, flatten |-> FALSE]

C2_Witness ==
    /\ BothRequested
    /\ Len(remote) >= 3 /\ remote[3].ev = "call" /\ IsConvertCall(remote[3].call)
    /\ ConvertRequest(remote[3].call).input = "/out/scan_output/dicom_file"

(* C3: when the anonymize call of a run that requested both stages rejects,*)
(* no conversion call is issued, no report is stored and the run has ended.*)
C3_StageOneRejected ==
    (BothRequested /\ Len(remote) >= 2 /\ Trace[2] = <<"reject", "anonymize">>) =>
       /\ \A j \in 1..Len(remote) : ~IsConvertCall(remote[j].call)
       /\ Len(remote) = 2
       /\ pending = <<>>
       /\ anonymizationReport = Null /\ conversionReport = Null
       /\ ~isProcessing

C3_Witness ==
    BothRequested /\ Len(remote) = 2 /\ Trace[2] = <<"reject", "anonymize">>

\* a step that is a press of the start button
Pressed == attempt' # "none"

(* C4: a press of the start button while a run is in progress is rejected: *)
(* it issues no remote call and resets no progress, report or log.         *)
C4_NoReentry ==
    [][(isProcessing /\ Pressed) =>
          /\ attempt' = "disabled"
          /\ UNCHANGED <<isProcessing, progVars, repVars, logs, callVars>>]_vars

C4_Witness == isProcessing /\ attempt = "disabled" /\ pending # <<>>

C6_InvalidRejected ==
    [][((inputPath = "" \/ outputPath = "" \/
         (page = "test" /\ ~doAnonymize /\ ~doConvert) \/
         (page = "home" /\ exportFormats = <<>>)) /\ Pressed) =>
          /\ attempt' \in {"disabled", "rejected"}
          /\ UNCHANGED <<isProcessing, progVars, repVars, logs, callVars>>]_vars

C6_Witness ==
    /\ attempt = "disabled" /\ ~isProcessing
    /\ ~doAnonymize /\ ~doConvert
    /\ anonymizationReport # Null /\ logs # <<>>

-----------------------------------------------------------------------------
(* The tag configuration drawn from a set of texts.                        *)

MaxTags == 2         \* tag items in a generated well-formed list

Words == {16, 32}    \* group and element numbers of the generated lists

\* the 4-digit hexadecimal text of a group or element number
Hex4(n) == <<HexChars[((n \div 4096) % 16) + 1], HexChars[((n \div 256) % 16) + 1],
             HexChars[((n \div 16) % 16) + 1], HexChars[(n % 16) + 1]>>

\* "gggg,eeee; gggg,eeee; ..." for a sequence of (group, element) pairs
RECURSIVE FormatTagList(_)
FormatTagList(pairs) ==
    IF Len(pairs) = 0 THEN <<>>
    ELSE IF Len(pairs) = 1 THEN Item(Hex4(pairs[1][1]), Hex4(pairs[1][2]))
    ELSE Item(Hex4(pairs[1][1]), Hex4(pairs[1][2])) \o Sep \o FormatTagList(Tail(pairs))

TagLists == UNION {[1..n -> Words \X Words] : n \in 1..MaxTags}

OtherTagsInputs ==
    { <<>>,                                                      \* ""
      T("0","0","1","0"),                                        \* "0010"
      Item(T("0","0","1","0"), Item(T("0","0","1","0"), T("0","0","1","0"))),
                                                                 \* "0010,0010,0010"
      Item(T("0","0","1","0"), T("0","0","1","0")) \o <<";">>,   \* "0010,0010;"
      Item(T("0","0","1","0"), T("0","0","2","0")) \o Sep \o T("0","0","1","0"),
                                                                 \* "0010,0020; 0010"
      Item(T("0","0","A","b"), T("7","f","E","0")),              \* "00Ab,7fE0"
      Item(T("0","0","g","0"), T("0","0","1","0")),              \* "00g0,0010"
      Item(T("g","0","1","0"), T("0","0","1","0")),              \* "g010,0010"
      Item(T("0","0","1","0"), T("0","x","1","0")),              \* "0010,0x10"
      Item(T("-","0","1","0"), T("0","0","1","0")),              \* "-010,0010"
      Item(T("0","0","1","0"), T("z","z","z","z")) }             \* "0010,zzzz"

TagsInputs ==
    {DefaultTagsInput} \cup {FormatTagList(pairs) : pairs \in TagLists} \cup OtherTagsInputs

InitTagsInput == InitWith(TagsInputs)

\* the form, the handlers and the backend's answers; the event streams silent
NextRun ==
    \/ \E path \in InputFolders : SetInputPath(path)
    \/ \E path \in OutputFolders : SetOutputPath(path)
    \/ \E format \in {"DICOM", "PNG"} : toggleFormat(format)
    \/ \E checked \in BOOLEAN : setDoAnonymize(checked)
    \/ \E checked \in BOOLEAN : setDoConvert(checked)
    \/ HomeHandleProcess
    \/ /\ page = "home"
       /\ \E i \in 1..Len(pending) :
             \E report \in ProcessReports(pending[i].call.args.input) :
                HomeInvokeResolved(i, report)
    \/ \E i \in 1..Len(pending) : HomeInvokeRejected(i)
    \/ TestHandleProcess
    \/ \E i \in 1..Len(pending) :
          \E report \in AnonymizationReports \cup ConversionReports :
             TestInvokeResolved(i, report)
    \/ \E i \in 1..Len(pending) : \E error \in BackendErrors : TestInvokeRejected(i, error)

SpecTagsInput == InitTagsInput /\ [][NextRun]_vars

-----------------------------------------------------------------------------
\* the tags the first call of the latest run carries
TagsOf(c) ==
    IF c.cmd = "anonymize_dicom" THEN c.args.tags ELSE The(c.args.input.anonymize).tags

\* some ';'-separated item of the text does not hold exactly one ','
BadArity(text) ==
    \E a \in 0..Len(text) : \E b \in (a + 1)..(Len(text) + 1) :
       /\ a = 0 \/ text[a] = ";"
       /\ b = Len(text) + 1 \/ text[b] = ";"
       /\ \A k \in (a + 1)..(b - 1) : text[k] # ";"
       /\ Cardinality({k \in (a + 1)..(b - 1) : text[k] = ","}) # 1

\* some character of the text is no hexadecimal digit, separator or blank
NonHexCharacter(text) ==
    \E k \in 1..Len(text) : ~IsHexDigit(text[k]) /\ text[k] \notin {",", ";", " "}

AnonymizeRequested == run.started /\ run.doAnonymize

(* C7: the parser maps a list of 'gggg,eeee' items to the (group, element) *)
(* pairs in input order, which the anonymize call then carries; an item    *)
(* without exactly two comma-separated parts fails the parse before any    *)
(* remote call is issued.                                                  *)
C7_TagParsing ==
    AnonymizeRequested =>
       /\ \A pairs \in TagLists :
             tagsInput = FormatTagList(pairs) =>
                remote # <<>> /\ TagsOf(remote[1].call) = pairs
       /\ BadArity(tagsInput) => remote = <<>> /\ pending = <<>> /\ ~isProcessing

C7_Witness ==
    /\ AnonymizeRequested
    /\ tagsInput = Item(T("0","0","1","0"), T("0","0","1","0")) \o Sep \o
                   Item(T("0","0","1","0"), T("0","0","2","0"))
    /\ remote # <<>> /\ TagsOf(remote[1].call) = <<<<16, 16>>, <<16, 32>>>>

C10_NoSubscriptionLeft == ~mounted => listeners = {}

-----------------------------------------------------------------------------
(* The event streams of HomePage.                                          *)

\* a step in which one of the three HomePage handlers ran
HomeEventDelivered ==
    \/ \E payload \in ProgressPayloads : HomeConversionProgress(payload)
    \/ \E payload \in ProgressPayloads : HomeAnonymizationProgress(payload)
    \/ \E entry \in LogEntries : HomeLogEvent(entry)

(* C11: an event delivered on any of the three streams while no run is in  *)
(* progress leaves anonymizeProgress, convertProgress and logs unchanged.  *)
C11_IdleEventsIgnored ==
    [][(~isProcessing /\ HomeEventDelivered) =>
          UNCHANGED <<anonymizeProgress, convertProgress, logs>>]_vars

IsPrefix(s, t) == Len(s) <= Len(t) /\ SubSeq(t, 1, Len(s)) = s

\* the log lines handleProcess itself writes when a TestPage run starts
StartLines == {<<"Starting Anonymization...">>, <<"Starting Conversion...">>}

(* C13: the log sequence is emptied when a run starts; in every other step *)
(* the entries it holds stay, in their order, and a delivered log event is *)
(* appended once at the end.                                               *)
C13_LogsAppendOnly ==
    [][/\ attempt' = "started" =>
             IF page = "home" THEN logs' = <<>> ELSE logs' \in StartLines
       /\ attempt' \notin {"started", "parse_error"} => IsPrefix(logs, logs')
       /\ \A entry \in LogEntries :
             HomeLogEvent(entry) => logs' = Append(logs, entry)]_vars

C13_Witness ==
    /\ page = "home" /\ isProcessing
    /\ Len(logs) = 2 /\ logs[1].success /\ ~logs[2].success

-----------------------------------------------------------------------------
(* JavaScript values and JSON text, as the tag explorer stores its pins.   *)
(* A value is a record tagged by its type; an object is the sequence of    *)
(* its <<key, value>> members in insertion order; keys are texts.          *)

Undefined == [j |-> "undefined"]
JNull == [j |-> "null"]
JBool(b) == [j |-> "boolean", b |-> b]
JNum(n) == [j |-> "number", n |-> n]
JStr(s) == [j |-> "string", s |-> s]
JArr(items) == [j |-> "array", items |-> items]
JObj(members) == [j |-> "object", members |-> members]

KeyGroup == <<"g", "r", "o", "u", "p">>
KeyElement == <<"e", "l", "e", "m", "e", "n", "t">>
TextNull == <<"n", "u", "l", "l">>
TextTrue == <<"t", "r", "u", "e">>
TextFalse == <<"f", "a", "l", "s", "e">>
TextUndefined == <<"u", "n", "d", "e", "f", "i", "n", "e", "d">>
Quote == "\""

\* obj.key: the value of the last member with that key, undefined without one
RECURSIVE Get(_, _)
Get(members, key) ==
    IF members = <<>> THEN Undefined
    ELSE LET m == members[Len(members)]
         IN  IF m[1] = key THEN m[2] ELSE Get(SubSeq(members, 1, Len(members) - 1), key)

\* Number.prototype.toString(radix) of a non-negative integer
RECURSIVE Radix(_, _)
Radix(n, b) ==
    IF n < b THEN <<HexChars[n + 1]>> ELSE Radix(n \div b, b) \o <<HexChars[(n % b) + 1]>>

NumberText(n) == IF n < 0 THEN <<"-">> \o Radix(0 - n, 10) ELSE Radix(n, 10)

RECURSIVE Join(_, _)
Join(texts, sep) ==
    IF texts = <<>> THEN <<>>
    ELSE IF Len(texts) = 1 THEN texts[1]
    ELSE texts[1] \o sep \o Join(Tail(texts), sep)

\* String(value), as a template literal `${value}` converts it
RECURSIVE TemplateText(_)
TemplateText(v) ==
    CASE v.j = "undefined" -> TextUndefined
      [] v.j = "null" -> TextNull
      [] v.j = "boolean" -> IF v.b THEN TextTrue ELSE TextFalse
      [] v.j = "number" -> NumberText(v.n)
      [] v.j = "string" -> v.s
      [] v.j = "array" ->
            Join([i \in 1..Len(v.items) |->
                     IF v.items[i].j \in {"undefined", "null"} THEN <<>>
                     ELSE TemplateText(v.items[i])], <<",">>)
      [] v.j = "object" ->
            <<"[", "o", "b", "j", "e", "c", "t", " ", "O", "b", "j", "e", "c", "t", "]">>

\* JSON.stringify(value); an undefined array element is written as null
RECURSIVE JSONstringify(_)
JSONstringify(v) ==
    CASE v.j = "undefined" -> TextNull
      [] v.j = "null" -> TextNull
      [] v.j = "boolean" -> IF v.b THEN TextTrue ELSE TextFalse
      [] v.j = "number" -> NumberText(v.n)
      [] v.j = "string" -> <<Quote>> \o v.s \o <<Quote>>
      [] v.j = "array" ->
            <<"[">> \o Join([i \in 1..Len(v.items) |-> JSONstringify(v.items[i])],
                            <<",">>) \o <<"]">>
      [] v.j = "object" ->
            LET kept == SelectSeq(v.members, LAMBDA m : m[2].j # "undefined")
            IN  <<"{">> \o Join([i \in 1..Len(kept) |->
                                    <<Quote>> \o kept[i][1] \o <<Quote, ":">>
                                       \o JSONstringify(kept[i][2])], <<",">>) \o <<"}">>

\* JSON.parse(text) for texts made of null, true, false, integers, strings
\* without escapes, arrays and objects; [ok |-> FALSE] is a SyntaxError.
\* A parser result carries the value read and the index after it.
ParseFail == [ok |-> FALSE, v |-> Undefined, i |-> 0]
ParseDone(v, i) == [ok |-> TRUE, v |-> v, i |-> i]

IsJsonSpace(c) == c \in {" ", "\t", "\n", "\r"}

RECURSIVE SkipWs(_, _)
SkipWs(s, i) == IF i <= Len(s) /\ IsJsonSpace(s[i]) THEN SkipWs(s, i + 1) ELSE i

StartsWith(s, i, word) ==
    i + Len(word) - 1 <= Len(s) /\ SubSeq(s, i, i + Len(word) - 1) = word

IsDecDigit(c) == c \in {"0", "1", "2", "3", "4", "5", "6", "7", "8", "9"}

\* the index after the run of decimal digits that starts at i
RECURSIVE DigitsEnd(_, _)
DigitsEnd(s, i) == IF i <= Len(s) /\ IsDecDigit(s[i]) THEN DigitsEnd(s, i + 1) ELSE i

\* the index of the closing quote of a string whose text starts at i, 0 without one
RECURSIVE StringEnd(_, _)
StringEnd(s, i) ==
    IF i > Len(s) THEN 0 ELSE IF s[i] = Quote THEN i ELSE StringEnd(s, i + 1)

ParseNumber(s, i) ==
    LET neg == s[i] = "-"
        d   == IF neg THEN i + 1 ELSE i
        e   == DigitsEnd(s, d)
    IN  IF e = d THEN ParseFail
        ELSE IF s[d] = "0" /\ e > d + 1 THEN ParseFail
        ELSE LET n == DecNumber(SubSeq(s, d, e - 1))
             IN  ParseDone(JNum(IF neg THEN 0 - n ELSE n), e)

ParseString(s, i) ==
    LET e == StringEnd(s, i + 1)
    IN  IF e = 0 THEN ParseFail ELSE ParseDone(JStr(SubSeq(s, i + 1, e - 1)), e + 1)

RECURSIVE ParseValue(_, _)
RECURSIVE ParseElements(_, _, _)
RECURSIVE ParseMembers(_, _, _)

ParseValue(s, from) ==
    LET i == SkipWs(s, from)
    IN  IF i > Len(s) THEN ParseFail
        ELSE IF s[i] = "[" THEN
             LET k == SkipWs(s, i + 1)
             IN  IF k <= Len(s) /\ s[k] = "]" THEN ParseDone(JArr(<<>>), k + 1)
                 ELSE ParseElements(s, i + 1, <<>>)
        ELSE IF s[i] = "{" THEN
             LET k == SkipWs(s, i + 1)
             IN  IF k <= Len(s) /\ s[k] = "}" THEN ParseDone(JObj(<<>>), k + 1)
                 ELSE ParseMembers(s, i + 1, <<>>)
        ELSE IF s[i] = Quote THEN ParseString(s, i)
        ELSE IF s[i] = "-" \/ IsDecDigit(s[i]) THEN ParseNumber(s, i)
        ELSE IF StartsWith(s, i, TextNull) THEN ParseDone(JNull, i + 4)
        ELSE IF StartsWith(s, i, TextTrue) THEN ParseDone(JBool(TRUE), i + 4)
        ELSE IF StartsWith(s, i, TextFalse) THEN ParseDone(JBool(FALSE), i + 5)
        ELSE ParseFail

ParseElements(s, from, acc) ==
    LET r == ParseValue(s, from)
    IN  IF ~r.ok THEN ParseFail
        ELSE LET k == SkipWs(s, r.i)
             IN  IF k > Len(s) THEN ParseFail
                 ELSE IF s[k] = "," THEN ParseElements(s, k + 1, Append(acc, r.v))
                 ELSE IF s[k] = "]" THEN ParseDone(JArr(Append(acc, r.v)), k + 1)
                 ELSE ParseFail

ParseMembers(s, from, acc) ==
    LET i == SkipWs(s, from)
    IN  IF i > Len(s) \/ s[i] # Quote THEN ParseFail
        ELSE LET key == ParseString(s, i)
             IN  IF ~key.ok THEN ParseFail
                 ELSE LET c == SkipWs(s, key.i)
                      IN  IF c > Len(s) \/ s[c] # ":" THEN ParseFail
                          ELSE LET r == ParseValue(s, c + 1)
                               IN  IF ~r.ok THEN ParseFail
                                   ELSE LET k   == SkipWs(s, r.i)
                                            all == Append(acc, <<key.v.s, r.v>>)
                                        IN  IF k > Len(s) THEN ParseFail
                                            ELSE IF s[k] = "," THEN ParseMembers(s, k + 1, all)
                                            ELSE IF s[k] = "}" THEN ParseDone(JObj(all), k + 1)
                                            ELSE ParseFail

JSONparse(text) ==
    LET r == ParseValue(text, 1)
    IN  IF r.ok /\ SkipWs(text, r.i) > Len(text) THEN r ELSE ParseFail

-----------------------------------------------------------------------------
(* The tag explorer (TagViewerPage): rows, pins and the derived view.      *)

MaxCalls == 2        \* get_dicom_tags calls in flight at one time

UpperLetters == <<"A", "B", "C", "D", "E", "F", "G", "H", "I", "J", "K", "L", "M",
                  "N", "O", "P", "Q", "R", "S", "T", "U", "V", "W", "X", "Y", "Z">>
LowerLetters == <<"a", "b", "c", "d", "e", "f", "g", "h", "i", "j", "k", "l", "m",
                  "n", "o", "p", "q", "r", "s", "t", "u", "v", "w", "x", "y", "z">>

\* String.prototype.toLowerCase
ToLowerCase(text) ==
    [i \in 1..Len(text) |->
        IF \E k \in 1..26 : UpperLetters[k] = text[i]
        THEN LowerLetters[CHOOSE k \in 1..26 : UpperLetters[k] = text[i]]
        ELSE text[i]]

\* String.prototype.includes
TextIncludes(text, part) ==
    \E i \in 1..(Len(text) + 1) : StartsWith(text, i, part)

\* a DicomTag as get_dicom_tags returns it
DicomTag(group, element, name, vr, value) ==
    [group |-> group, element |-> element, name |-> name, vr |-> vr, value |-> value]

PatientName == DicomTag(16, 16, <<"N", "a", "m", "e">>, "PN", <<"D", "o", "e">>)
PatientID == DicomTag(16, 32, <<"I", "d">>, "LO", <<"a", "7">>)
StudyInstanceUID == DicomTag(32, 13, <<"U", "i", "d">>, "UI", <<"1", ".", "2">>)

DicomTags == {PatientName, PatientID, StudyInstanceUID}

TagFiles == {"a.dcm", "b.dcm"}

\* the rows get_dicom_tags answers with for a file
FileTags(path) ==
    CASE path = "a.dcm" -> <<StudyInstanceUID, PatientID, PatientName>>
      [] path = "b.dcm" -> <<PatientID, PatientName, PatientID>>
      [] OTHER -> <<>>

TagErrors == {"not a DICOM file"}

FilterTexts == {<<>>, <<"N", "A">>, <<"1", "0">>, <<"0", "0", "1", "0">>}

\* { group: tag.group, element: tag.element }
PinnedTag(group, element) ==
    JObj(<<<<KeyGroup, JNum(group)>>, <<KeyElement, JNum(element)>>>>)

DefaultPinnedTags ==
    JArr(<<PinnedTag(16, 16), PinnedTag(16, 32), PinnedTag(16, 48),
           PinnedTag(8, 128), PinnedTag(8, 144)>>)

\* p.key for a value p that is neither null nor undefined
PropertyOf(p, key) == IF p.j = "object" THEN Get(p.members, key) ELSE Undefined

\* `${p.group}-${p.element}`
PinKey(p) ==
    TemplateText(PropertyOf(p, KeyGroup)) \o <<"-">> \o TemplateText(PropertyOf(p, KeyElement))

\* `${tag.group}-${tag.element}`
TagKey(tag) == NumberText(tag.group) \o <<"-">> \o NumberText(tag.element)

\* the memo pinnedTagSet: pinnedTags().forEach(p => set.add(...)) throws a
\* TypeError when the value has no forEach or an element is null
pinnedTagSet(value) ==
    IF value.j # "array" THEN [threw |-> TRUE, set |-> {}]
    ELSE IF \E i \in 1..Len(value.items) : value.items[i].j \in {"null", "undefined"}
    THEN [threw |-> TRUE, set |-> {}]
    ELSE [threw |-> FALSE, set |-> {PinKey(value.items[i]) : i \in 1..Len(value.items)}]

\* faulty variant: no tag is ever taken as pinned
isPinnedNever(value, tag) == FALSE

isPinned(value, tag) == TagKey(tag) \in pinnedTagSet(value).set

\* faulty variant: unpinning removes every pin of the tag's group
ToggledByGroup(value, tag) ==
    IF isPinned(value, tag)
    THEN JArr(SelectSeq(value.items,
                        LAMBDA q : ~(PropertyOf(q, KeyGroup) = JNum(tag.group))))
    ELSE JArr(Append(value.items, PinnedTag(tag.group, tag.element)))

\* the value togglePin(tag) stores in pinnedTags
Toggled(value, tag) ==
    IF isPinned(value, tag)
    THEN JArr(SelectSeq(value.items,
                        LAMBDA q : ~(/\ PropertyOf(q, KeyGroup) = JNum(tag.group)
                                     /\ PropertyOf(q, KeyElement) = JNum(tag.element))))
    ELSE JArr(Append(value.items, PinnedTag(tag.group, tag.element)))

\* String.prototype.toUpperCase
ToUpperCase(text) ==
    [i \in 1..Len(text) |->
        IF \E k \in 1..26 : LowerLetters[k] = text[i]
        THEN UpperLetters[CHOOSE k \in 1..26 : LowerLetters[k] = text[i]]
        ELSE text[i]]

\* String.prototype.padStart(length, "0")
RECURSIVE padStart(_, _)
padStart(text, length) ==
    IF Len(text) >= length THEN text ELSE padStart(<<"0">> \o text, length)

\* the tag column of a row: (GGGG,EEEE)
TagColumn(tag) ==
    <<"(">> \o ToUpperCase(padStart(Radix(tag.group, 16), 4)) \o <<",">>
            \o ToUpperCase(padStart(Radix(tag.element, 16), 4)) \o <<")">>

\* faulty variant: the filter is looked for in the padded texts of the column
MatchesPadded(tag, filter) ==
    \/ TextIncludes(ToLowerCase(tag.name), filter)
    \/ TextIncludes(ToLowerCase(tag.value), filter)
    \/ TextIncludes(padStart(Radix(tag.group, 16), 4), filter)
    \/ TextIncludes(padStart(Radix(tag.element, 16), 4), filter)

\* faulty variant: the name of the row is not searched
MatchesWithoutName(tag, filter) ==
    \/ TextIncludes(ToLowerCase(tag.value), filter)
    \/ TextIncludes(Radix(tag.group, 16), filter)
    \/ TextIncludes(Radix(tag.element, 16), filter)

\* the callback of currentTags.filter; filter is filterText().toLowerCase()
Matches(tag, filter) ==
    \/ TextIncludes(ToLowerCase(tag.name), filter)
    \/ TextIncludes(ToLowerCase(tag.value), filter)
    \/ TextIncludes(Radix(tag.group, 16), filter)
    \/ TextIncludes(Radix(tag.element, 16), filter)

\* faulty variant: rows of one group left in the order they came
CompareByGroup(a, b, pinnedSet) ==
    LET aPinned == TagKey(a) \in pinnedSet
        bPinned == TagKey(b) \in pinnedSet
    IN  IF aPinned /\ ~bPinned THEN -1
        ELSE IF ~aPinned /\ bPinned THEN 1
        ELSE a.group - b.group

\* the comparator of currentTags.sort
Compare(a, b, pinnedSet) ==
    LET aPinned == TagKey(a) \in pinnedSet
        bPinned == TagKey(b) \in pinnedSet
    IN  IF aPinned /\ ~bPinned THEN -1
        ELSE IF ~aPinned /\ bPinned THEN 1
        ELSE IF a.group # b.group THEN a.group - b.group
        ELSE a.element - b.element

\* x put after every row of the sorted sequence that does not follow it
RECURSIVE Inserted(_, _, _)
Inserted(sorted, x, pinnedSet) ==
    IF sorted = <<>> THEN <<x>>
    ELSE IF Compare(sorted[Len(sorted)], x, pinnedSet) <= 0 THEN Append(sorted, x)
    ELSE Append(Inserted(SubSeq(sorted, 1, Len(sorted) - 1), x, pinnedSet),
                sorted[Len(sorted)])

\* Array.prototype.sort: stable, by the comparator
RECURSIVE Sorted(_, _)
Sorted(rows, pinnedSet) ==
    IF rows = <<>> THEN <<>>
    ELSE Inserted(Sorted(SubSeq(rows, 1, Len(rows) - 1), pinnedSet),
                  rows[Len(rows)], pinnedSet)

\* faulty variant: without a filter the array of the signal itself is sorted
SortedArrayNoCopy(filter) == IF filter # <<>> THEN "filtered" ELSE "tags"

\* the array currentTags names when sort() is called on it: the one filter()
\* returned, or the copy [...currentTags]
SortedArray(filter) == IF filter # <<>> THEN "filtered" ELSE "copy"

\* the memo filteredTags: its value, and the rows of the tags array after it
ComputeFilteredTags(rows, text, value) ==
    LET filter      == ToLowerCase(text)
        currentTags == IF filter # <<>>
                       THEN SelectSeq(rows, LAMBDA tag : Matches(tag, filter))
                       ELSE rows
        sorted      == Sorted(currentTags, pinnedTagSet(value).set)
    IN  [view |-> sorted,
         rows |-> IF SortedArray(filter) = "tags" THEN sorted ELSE rows]

\* faulty variant: an empty stored list is replaced by the default pins
loadPinnedTagsDefaultWhenEmpty(stored) ==
    IF stored # Null /\ The(stored) # <<>>
    THEN LET parsed == JSONparse(The(stored))
         IN  IF ~parsed.ok THEN JArr(<<>>)
             ELSE IF parsed.v = JArr(<<>>) THEN DefaultPinnedTags ELSE parsed.v
    ELSE DefaultPinnedTags

\* loadPinnedTags: the value pinnedTags holds after it
loadPinnedTags(stored) ==
    IF stored # Null /\ The(stored) # <<>>
    THEN LET parsed == JSONparse(The(stored))
         IN  IF parsed.ok THEN parsed.v ELSE JArr(<<>>)
    ELSE DefaultPinnedTags

\* faulty variant: the effect does not write
PersistedStale(stored, value) == stored

\* the effect: localStorage.setItem("pinnedTags", JSON.stringify(pinnedTags()))
Persisted(stored, value) == Some(JSONstringify(value))

pipelineVars == <<tagsInput, mounted, formVars, isProcessing, progVars, repVars, logs,
                  listenPc, listeners, cleanups, callVars, attempt>>

\* the memo filteredTags recomputed after its sources changed
Recomputed(rows, text, value) ==
    LET m == ComputeFilteredTags(rows, text, value)
    IN  /\ filteredTags' = m.view
        /\ tagRows' = m.rows

\* the component function: loadPinnedTags(), the memos, then the effect once
\* rendering is through; a memo that throws ends the rendering.  onMount
\* calls loadFileList for a stored folder path, which runs up to its await.
TagViewerPage ==
    /\ page = "explorer" /\ explorer = "off"
    /\ LET value == loadPinnedTags(storedPins)
       IN  /\ pinnedTags' = value
           /\ IF pinnedTagSet(value).threw
              THEN /\ explorer' = "crashed"
                   /\ storedPins' \in {storedPins, Persisted(storedPins, value)}
                   /\ UNCHANGED <<tagRows, filteredTags, loading, listCalls>>
              ELSE /\ explorer' = "running"
                   /\ storedPins' = Persisted(storedPins, value)
                   /\ Recomputed(tagRows, filterText, value)
                   /\ IF folderPath # ""
                      THEN /\ loading' = TRUE
                           /\ listCalls' = Append(listCalls, folderPath)
                      ELSE UNCHANGED <<loading, listCalls>>
    /\ UNCHANGED <<page, pipelineVars, windowVars, statsVars, standaloneVars,
                   filterText, filePath, loadError, tagCalls,
                   folderPath, fileList, fileFilterText, currentPage>>

\* onInput of the filter box
setFilterText(text) ==
    /\ page = "explorer" /\ explorer = "running"
    /\ filterText' = text
    /\ Recomputed(tagRows, text, pinnedTags)
    /\ UNCHANGED <<page, restVars, pipelineVars, windowVars, statsVars,
                   explorer, storedPins, pinnedTags, filePath, loading,
                   loadError, tagCalls>>

\* the star button of a rendered row
togglePin(tag) ==
    /\ page = "explorer" /\ explorer = "running"
    /\ \E i \in 1..Len(filteredTags) : filteredTags[i] = tag
    /\ LET value == Toggled(pinnedTags, tag)
       IN  /\ pinnedTags' = value
           /\ storedPins' = Persisted(storedPins, value)
           /\ Recomputed(tagRows, filterText, value)
    /\ UNCHANGED <<page, restVars, pipelineVars, windowVars, statsVars,
                   explorer, filterText, filePath, loading, loadError,
                   tagCalls>>

\* a file dropped on the page: setFilePath(path); loadTags(path) up to its
\* await (the drag highlight, isDragging, is not part of the state)
handleDrop(path) ==
    /\ page = "explorer" /\ explorer = "running"
    /\ Len(tagCalls) < MaxCalls
    /\ filePath' = path
    /\ loading' = TRUE
    /\ loadError' = Null
    /\ tagCalls' = Append(tagCalls, path)
    /\ UNCHANGED <<page, restVars, pipelineVars, windowVars, statsVars,
                   explorer, storedPins, pinnedTags, tagRows, filterText,
                   filteredTags>>

\* loadTags after its await resolved: setTags(result), finally setLoading(false)
GetTagsResolved(i) ==
    /\ page = "explorer" /\ explorer = "running"
    /\ i \in 1..Len(tagCalls)
    /\ Recomputed(FileTags(tagCalls[i]), filterText, pinnedTags)
    /\ loading' = FALSE
    /\ tagCalls' = RemoveAt(tagCalls, i)
    /\ UNCHANGED <<page, restVars, pipelineVars, windowVars, statsVars,
                   explorer, storedPins, pinnedTags, filterText, filePath,
                   loadError>>

\* loadTags after its await rejected: setError(err); setTags([]); finally
GetTagsRejected(i, err) ==
    /\ page = "explorer" /\ explorer = "running"
    /\ i \in 1..Len(tagCalls)
    /\ loadError' = Some(err)
    /\ Recomputed(<<>>, filterText, pinnedTags)
    /\ loading' = FALSE
    /\ tagCalls' = RemoveAt(tagCalls, i)
    /\ UNCHANGED <<page, restVars, pipelineVars, windowVars, statsVars,
                   explorer, storedPins, pinnedTags, filterText, filePath>>

NextExplorer ==
    \/ TagViewerPage
    \/ \E text \in FilterTexts : setFilterText(text)
    \/ \E tag \in DicomTags : togglePin(tag)
    \/ \E path \in TagFiles : handleDrop(path)
    \/ \E i \in 1..Len(tagCalls) : GetTagsResolved(i)
    \/ \E i \in 1..Len(tagCalls) : \E err \in TagErrors : GetTagsRejected(i, err)

\* the pipeline pages not mounted: their signals hold their initial values
PipelineOff ==
    /\ tagsInput = DefaultTagsInput
    /\ mounted = FALSE
    /\ inputPath = ""
    /\ outputPath = ""
    /\ exportFormats = <<"DICOM">>
    /\ doAnonymize = TRUE
    /\ doConvert = TRUE
    /\ isProcessing = FALSE
    /\ anonymizeProgress = Null
    /\ convertProgress = Null
    /\ progress = Null
    /\ conversionReport = Null
    /\ anonymizationReport = Null
    /\ logs = <<>>
    /\ listenPc = 0
    /\ listeners = {}
    /\ cleanups = {}
    /\ pending = <<>>
    /\ remote = <<>>
    /\ run = NoRun
    /\ attempt = "none"

\* pin lists an earlier session of the explorer can have left in storage
EarlierPins ==
    {JArr(<<>>), JArr(<<PinnedTag(32, 13)>>),
     JArr(<<PinnedTag(16, 32), PinnedTag(16, 16)>>)}

InitExplorerWith(stored) ==
    /\ page = "explorer"
    /\ PipelineOff
    /\ storedPins \in stored
    /\ ExplorerOff
    /\ WindowOff
    /\ StatsOff
    /\ RestOff

InitExplorer == InitExplorerWith({Null} \cup {Some(JSONstringify(v)) : v \in EarlierPins})

SpecExplorer == InitExplorer /\ [][NextExplorer]_vars

-----------------------------------------------------------------------------
(* The derived view of the tag explorer.                                   *)

\* how often a row occurs in a sequence of rows
Occurrences(rows, r) == Cardinality({i \in 1..Len(rows) : rows[i] = r})

\* the filter predicate: no filter text, or the text found, whatever its case,
\* in the name, the value, the hexadecimal group or the hexadecimal element
PassesFilter(tag, text) ==
    \/ text = <<>>
    \/ \E field \in {tag.name, tag.value, Radix(tag.group, 16), Radix(tag.element, 16)} :
          TextIncludes(ToLowerCase(field), ToLowerCase(text))

(* C14: the derived view holds exactly the rows of the tag collection that *)
(* pass the filter predicate, each as often as the collection holds it: no *)
(* row is duplicated, dropped or invented.                                 *)
C14_ViewIsFilteredRows ==
    explorer = "running" =>
       /\ \A i \in 1..Len(filteredTags) : Occurrences(tagRows, filteredTags[i]) > 0
       /\ \A r \in DicomTags :
             Occurrences(filteredTags, r) =
                IF PassesFilter(r, filterText) THEN Occurrences(tagRows, r) ELSE 0

C14_Witness ==
    /\ explorer = "running"
    /\ filterText = <<"N", "A">>
    /\ tagRows = FileTags("b.dcm")
    /\ filteredTags = <<PatientName>>

\* the (group, element) identifiers of the pin set
PinnedIds ==
    {<<PropertyOf(pinnedTags.items[i], KeyGroup), PropertyOf(pinnedTags.items[i], KeyElement)>> :
        i \in 1..Len(pinnedTags.items)}

RowPinned(r) == <<JNum(r.group), JNum(r.element)>> \in PinnedIds

KeyNotAfter(a, b) == a.group < b.group \/ (a.group = b.group /\ a.element <= b.element)

(* C15: in the derived view every pinned row precedes every unpinned row,  *)
(* and among the pinned rows and among the unpinned rows (group, element)  *)
(* is non-decreasing.                                                      *)
C15_PinnedFirstThenKey ==
    explorer = "running" =>
       \A i, k \in 1..Len(filteredTags) :
          i < k =>
             /\ ~(~RowPinned(filteredTags[i]) /\ RowPinned(filteredTags[k]))
             /\ RowPinned(filteredTags[i]) = RowPinned(filteredTags[k]) =>
                   KeyNotAfter(filteredTags[i], filteredTags[k])

C15_Witness ==
    /\ explorer = "running"
    /\ tagRows = FileTags("a.dcm")
    /\ filteredTags = <<PatientID, PatientName, StudyInstanceUID>>

(* C16: computing the derived view leaves the tag collection as it was: it *)
(* holds the rows the load stored, in their order, and a change of filter  *)
(* text or pin set does not alter it.                                      *)
C16_TagsNotMutated ==
    [][/\ \A i \in 1..Len(tagCalls) :
             GetTagsResolved(i) => tagRows' = FileTags(tagCalls[i])
       /\ Len(tagCalls') >= Len(tagCalls) => tagRows' = tagRows]_vars

C16_Witness ==
    /\ explorer = "running"
    /\ filterText = <<>>
    /\ tagRows = FileTags("a.dcm")
    /\ filteredTags = <<PatientName, PatientID, StudyInstanceUID>>

-----------------------------------------------------------------------------
(* The pin set of the tag explorer and its persistence.                    *)

\* the members of a pin list
Members(value) ==
    {<<PropertyOf(value.items[i], KeyGroup), PropertyOf(value.items[i], KeyElement)>> :
        i \in 1..Len(value.items)}

(* C17: toggling the same tag twice in succession gives a pin set with the *)
(* members it had before.                                                  *)
C17_DoubleToggle ==
    explorer = "running" =>
       \A tag \in DicomTags :
          Members(Toggled(Toggled(pinnedTags, tag), tag)) = Members(pinnedTags)

C17_Witness ==
    /\ explorer = "running"
    /\ pinnedTags # DefaultPinnedTags
    /\ Members(pinnedTags) = Members(DefaultPinnedTags)
    /\ Len(pinnedTags.items) = 5

(* C18: from start-up through any sequence of toggles the pin set holds no *)
(* identifier more than once.                                              *)
C18_NoDuplicatePin ==
    explorer = "running" =>
       /\ pinnedTags.j = "array"
       /\ \A i, k \in 1..Len(pinnedTags.items) :
             i # k => Members(JArr(<<pinnedTags.items[i]>>))
                         # Members(JArr(<<pinnedTags.items[k]>>))

C18_Witness ==
    /\ explorer = "running"
    /\ Len(pinnedTags.items) = 6
    /\ pinnedTags.items[6] = PinnedTag(32, 13)

(* C19: after start-up and after every toggle the text stored under the    *)
(* pin key is the encoding of the pin set, and decoding it gives a pin set *)
(* with the same members.                                                  *)
C19_WriteThrough ==
    explorer = "running" =>
       /\ storedPins = Some(JSONstringify(pinnedTags))
       /\ JSONparse(The(storedPins)).ok
       /\ Members(JSONparse(The(storedPins)).v) = Members(pinnedTags)

C19_Witness ==
    /\ explorer = "running"
    /\ pinnedTags = JArr(<<PinnedTag(32, 13), PinnedTag(16, 16)>>)
    /\ storedPins = Some(JSONstringify(pinnedTags))

\* texts the pin key can hold that the explorer did not write
ForeignTexts ==
    {<<>>,
     <<"x", "{">>,
     <<"5">>,
     <<"n", "u", "l", "l">>,
     <<"{", "}">>,
     <<"[", "n", "u", "l", "l", "]">>,
     <<"[", "1", "]">>}

InitStoredPins ==
    InitExplorerWith({Null} \cup {Some(text) : text \in ForeignTexts}
                        \cup {Some(JSONstringify(v)) : v \in EarlierPins})

SpecStoredPins == InitStoredPins /\ [][NextExplorer]_vars

\* a pin list: an array of objects with a numeric group and element
WellFormedPins(value) ==
    /\ value.j = "array"
    /\ \A i \in 1..Len(value.items) :
          /\ PropertyOf(value.items[i], KeyGroup).j = "number"
          /\ PropertyOf(value.items[i], KeyElement).j = "number"

(* C20: whatever the pin key holds (nothing, text that is not JSON, JSON    *)
(* that is not an array of {group, element}), start-up completes without   *)
(* crashing and the pin set is a well-formed set of identifiers.           *)
C20_StartupSurvives ==
    /\ explorer # "crashed"
    /\ explorer = "running" => WellFormedPins(pinnedTags)

-----------------------------------------------------------------------------
(* Failure and termination of a run.                                       *)

\* what the page shows of a rejected call: TestPage appends an "Error: ..."
\* line to its log; no signal of HomePage takes the error
ErrorShown ==
    /\ page = "test"
    /\ \E i \in 1..Len(logs) : \E err \in BackendErrors : logs[i] = "Error: " \o err

(* C24: when a remote call of a run rejects, the run has ended, the page   *)
(* shows an error state, and the rejected call is not issued again.        *)
C24_RejectionSurfaced ==
    (remote # <<>> /\ remote[Len(remote)].ev = "reject") =>
       /\ ~isProcessing /\ pending = <<>>
       /\ ErrorShown

\* some issued remote call resolves or rejects
Settled ==
    \/ /\ page = "home"
       /\ \E i \in 1..Len(pending) :
             \E report \in ProcessReports(pending[i].call.args.input) :
                HomeInvokeResolved(i, report)
    \/ \E i \in 1..Len(pending) : HomeInvokeRejected(i)
    \/ \E i \in 1..Len(pending) :
          \E report \in AnonymizationReports \cup ConversionReports :
             TestInvokeResolved(i, report)
    \/ \E i \in 1..Len(pending) : \E err \in BackendErrors : TestInvokeRejected(i, err)

\* the runs of SpecTagsInput, every issued remote call settling in the end
SpecRunFair == InitTagsInput /\ [][NextRun]_vars /\ WF_vars(Settled)

(* C25: isProcessing is true only while a call of the run is in flight,    *)
(* so it is false once handleProcess has returned (after a tag-parse       *)
(* failure too), and whenever it is true it becomes false again, provided  *)
(* every issued call resolves or rejects.                                  *)
C25_RunTerminates ==
    /\ [](isProcessing => pending # <<>>)
    /\ isProcessing ~> ~isProcessing

C25_Witness ==
    /\ run.started /\ ~isProcessing /\ pending = <<>>
    /\ Len(remote) = 4 /\ remote[4].ev = "reject"

\* the step issued the conversion call on the folder of the stage-1 report
ConversionIssued(report) ==
    LET e == remote'[Len(remote')]
    IN  /\ e.ev = "call" /\ IsConvertCall(e.call)
        /\ ConvertRequest(e.call).input = report.output_folder \o "/dicom_file"
        /\ ConvertRequest(e.call).output = report.output_folder
        /\ isProcessing'

(* C26: a stage-1 report with failed files, all of them included, does not *)
(* end a run that is to convert as well: the step that takes the report    *)
(* issues the conversion call on that report's output folder.              *)
C26_FailedFilesDoNotAbort ==
    [][/\ \A i \in 1..Len(pending) :
             \A report \in (IF page = "home"
                            THEN ProcessReports(pending[i].call.args.input) ELSE {}) :
                (/\ HomeInvokeResolved(i, report)
                 /\ pending[i].k = "first" /\ pending[i].doConvert
                 /\ report.anonymization # Null
                 /\ The(report.anonymization).failed > 0)
                   => ConversionIssued(The(report.anonymization))
       /\ \A i \in 1..Len(pending) :
             \A report \in AnonymizationReports :
                (/\ TestInvokeResolved(i, report)
                 /\ pending[i].k = "anonymize" /\ doConvert
                 /\ report.failed > 0)
                   => ConversionIssued(report)]_vars

C26_Witness ==
    /\ page = "home" /\ BothRequested
    /\ Len(remote) >= 3
    /\ StageOneReport(remote[2]).failed = StageOneReport(remote[2]).total
    /\ remote[3].ev = "call" /\ IsConvertCall(remote[3].call)

-----------------------------------------------------------------------------
(* Loading tags in the tag explorer.                                       *)

(* C28: once every get_dicom_tags call has resolved, the rows displayed    *)
(* are those of the file filePath names, in whatever order the responses   *)
(* arrived.                                                                *)
C28_RowsOfSelectedFile ==
    (explorer = "running" /\ filePath # "" /\ tagCalls = <<>> /\ loadError = Null) =>
       tagRows = FileTags(filePath)

(* C30: the loading flag is true in every state in which a load call of    *)
(* the tag explorer is still in flight, overlapping calls included.        *)
C30_LoadingWhileInFlight ==
    (explorer = "running" /\ tagCalls # <<>>) => loading

-----------------------------------------------------------------------------
(* The statistics modal (StatsModal): fetchStats and the post-processing   *)
(* of each value histogram when it is rendered.                            *)

TopValues == 10

StatsFolders == {"", "/scans"}
StatsPinLists == {JArr(<<>>), JArr(<<PinnedTag(16, 16)>>), DefaultPinnedTags}
StatsErrors == {"folder not readable"}

\* value_counts as Object.entries lists it: <<value, count>> pairs
Histograms ==
    {<<>>,
     <<<<"A", 3>>, <<"B", 1>>>>,
     <<<<"B", 1>>, <<"A", 3>>>>,
     <<<<"x", 2>>, <<"y", 2>>, <<"z", 5>>>>,
     <<<<"a", 1>>, <<"b", 2>>>>,
     <<<<"p", 1>>, <<"q", 15>>>>,
     <<<<"", 0>>>>,
     [i \in 1..(TopValues + 1) |-> <<"v" \o ToString(i), i>>]}

TagStat(counts) == [group |-> 16, element |-> 16, name |-> "PatientName",
                    value_counts |-> counts]

\* what get_pinned_tags_stats answers with
StatsResults ==
    {<<TagStat(h)>> : h \in Histograms}
       \cup {<<TagStat(h), TagStat(k)>> : h \in Histograms, k \in Histograms}

\* props.pinnedTags.map(t => [t.group, t.element])
PinPairs(pins) ==
    [i \in 1..Len(pins.items) |->
        <<PropertyOf(pins.items[i], KeyGroup), PropertyOf(pins.items[i], KeyElement)>>]

\* faulty variant: one call for each pinned tag
FetchStatsCallsPerTag(folder, pins) ==
    [i \in 1..Len(pins.items) |->
        Call("get_pinned_tags_stats", [folder |-> folder, tags |-> <<PinPairs(pins)[i]>>])]

\* the remote calls one fetchStats() issues
FetchStatsCalls(folder, pins) ==
    IF Falsy(folder) \/ Len(pins.items) = 0 THEN <<>>
    ELSE <<Call("get_pinned_tags_stats", [folder |-> folder, tags |-> PinPairs(pins)])>>

\* Object.values(stat.value_counts).reduce((a, b) => a + b, 0)
RECURSIVE Total(_)
Total(counts) ==
    IF counts = <<>> THEN 0 ELSE Total(SubSeq(counts, 1, Len(counts) - 1)) + counts[Len(counts)][2]

\* faulty variant: the lowest count first
CountOrderAscending(a, b) == a[2] - b[2]

\* the comparator ([, a], [, b]) => b - a
CountOrder(a, b) == b[2] - a[2]

RECURSIVE InsertedEntry(_, _)
InsertedEntry(sorted, x) ==
    IF sorted = <<>> THEN <<x>>
    ELSE IF CountOrder(sorted[Len(sorted)], x) <= 0 THEN Append(sorted, x)
    ELSE Append(InsertedEntry(SubSeq(sorted, 1, Len(sorted) - 1), x), sorted[Len(sorted)])

RECURSIVE SortedByCount(_)
SortedByCount(counts) ==
    IF counts = <<>> THEN <<>>
    ELSE InsertedEntry(SortedByCount(SubSeq(counts, 1, Len(counts) - 1)), counts[Len(counts)])

\* Object.entries(...).sort(...).slice(0, 10)
sortedEntries(counts) ==
    LET all == SortedByCount(counts)
    IN  SubSeq(all, 1, IF Len(all) < TopValues THEN Len(all) ELSE TopValues)

\* the text of a number of tenths, as toFixed(1) writes it
TenthsText(t) == NumberText(t \div 10) \o <<".">> \o NumberText(t % 10)

\* ((count / total) * 100).toFixed(1): 0 / 0 is NaN, which toFixed writes "NaN";
\* a value half-way between two tenths goes up
Percentage(count, total) ==
    IF total = 0 THEN <<"N", "a", "N">>
    ELSE TenthsText((count * 2000 + total) \div (2 * total))

\* the lines rendered for one tag: value, count and percentage
Rendered(stat) ==
    LET total   == Total(stat.value_counts)
        entries == sortedEntries(stat.value_counts)
    IN  [i \in 1..Len(entries) |->
            [value |-> entries[i][1], count |-> entries[i][2],
             percentage |-> Percentage(entries[i][2], total)]]

\* the component is created; onMount calls fetchStats(), which runs up to its await
StatsModal ==
    /\ page = "explorer" /\ ~statsOpen
    /\ statsOpen' = TRUE
    /\ LET calls == FetchStatsCalls(statsFolder, statsPins)
       IN  /\ statsCalls' = calls
           /\ statsPending' = (calls # <<>>)
           /\ statsLoading' = (calls # <<>>)
    /\ statsError' = Null
    /\ stats' = <<>>
    /\ UNCHANGED <<page, restVars, tagsInput, pipelineVars, explorerVars, windowVars,
                   statsFolder,
                   statsPins>>

\* fetchStats after its await resolved: setStats(result), finally
StatsResolved(result) ==
    /\ statsOpen /\ statsPending
    /\ stats' = result
    /\ statsLoading' = FALSE
    /\ statsPending' = FALSE
    /\ UNCHANGED <<page, restVars, tagsInput, pipelineVars, explorerVars, windowVars,
                   statsOpen,
                   statsFolder, statsPins, statsError, statsCalls>>

\* fetchStats after its await rejected: setError(err), finally
StatsRejected(err) ==
    /\ statsOpen /\ statsPending
    /\ statsError' = Some(err)
    /\ statsLoading' = FALSE
    /\ statsPending' = FALSE
    /\ UNCHANGED <<page, restVars, tagsInput, pipelineVars, explorerVars, windowVars,
                   statsOpen,
                   statsFolder, statsPins, stats, statsCalls>>

\* onClose: the parent hides the modal and the component is disposed of, a
\* response still to come finds no one to show it
CloseStats ==
    /\ statsOpen
    /\ statsOpen' = FALSE
    /\ stats' = <<>>
    /\ statsLoading' = FALSE
    /\ statsError' = Null
    /\ statsPending' = FALSE
    /\ UNCHANGED <<page, restVars, tagsInput, pipelineVars, explorerVars, windowVars,
                   statsFolder,
                   statsPins, statsCalls>>

NextStats ==
    \/ StatsModal
    \/ \E result \in StatsResults : StatsResolved(result)
    \/ \E err \in StatsErrors : StatsRejected(err)
    \/ CloseStats

InitStats ==
    /\ page = "explorer"
    /\ PipelineOff
    /\ RestOff
    /\ storedPins = Null
    /\ ExplorerOff
    /\ WindowOff
    /\ statsOpen = FALSE
    /\ statsFolder \in StatsFolders
    /\ statsPins \in StatsPinLists
    /\ stats = <<>>
    /\ statsLoading = FALSE
    /\ statsError = Null
    /\ statsCalls = <<>>
    /\ statsPending = FALSE

SpecStats == InitStats /\ [][NextStats]_vars

(* C22: for a histogram with a positive total the entries are listed in    *)
(* non-increasing count order, at most the 10 highest counts are kept, and *)
(* each percentage is count / total * 100 rounded to one decimal.          *)
C22_TopValuesAndPercentages ==
    \A i \in 1..Len(stats) :
       LET counts == stats[i].value_counts
           total  == Total(counts)
           lines  == Rendered(stats[i])
       IN  total > 0 =>
              /\ Len(lines) <= 10 /\ Len(lines) <= Len(counts)
              /\ Len(lines) = 10 \/ Len(lines) = Len(counts)
              /\ \A a, b \in 1..Len(lines) : a < b => lines[a].count >= lines[b].count
              /\ \A a \in 1..Len(lines) :
                    Occurrences([k \in 1..Len(lines) |-> <<lines[k].value, lines[k].count>>],
                                <<lines[a].value, lines[a].count>>)
                       <= Occurrences(counts, <<lines[a].value, lines[a].count>>)
              /\ \A k \in 1..Len(counts) :
                    \/ \E a \in 1..Len(lines) : <<lines[a].value, lines[a].count>> = counts[k]
                    \/ \A a \in 1..Len(lines) : lines[a].count >= counts[k][2]
              /\ \A a \in 1..Len(lines) :
                    \E t \in 0..1000 :
                       /\ lines[a].percentage = TenthsText(t)
                       /\ 2 * t * total - 2000 * lines[a].count <= total
                       /\ 2000 * lines[a].count - 2 * t * total <= total

C22_Witness ==
    /\ Len(stats) = 2
    /\ stats[1].value_counts = <<<<"B", 1>>, <<"A", 3>>>>
    /\ Rendered(stats[1]) =
          <<[value |-> "A", count |-> 3, percentage |-> <<"7", "5", ".", "0">>],
            [value |-> "B", count |-> 1, percentage |-> <<"2", "5", ".", "0">>]>>
    /\ Len(stats[2].value_counts) = 11 /\ Len(Rendered(stats[2])) = 10

(* C23: for a histogram whose counts sum to zero every percentage shown is *)
(* zero.                                                                   *)
C23_ZeroTotalIsZeroPercent ==
    \A i \in 1..Len(stats) :
       Total(stats[i].value_counts) = 0 =>
          \A a \in 1..Len(Rendered(stats[i])) :
             Rendered(stats[i])[a].percentage \in {<<"0">>, <<"0", ".", "0">>}

(* C27: one fetchStats issues one remote call that carries every pinned    *)
(* identifier, and none when the folder is empty or no tag is pinned.      *)
C27_OneStatsCall ==
    statsOpen =>
       IF statsFolder = "" \/ Len(statsPins.items) = 0
       THEN statsCalls = <<>>
       ELSE /\ Len(statsCalls) = 1
            /\ statsCalls[1].cmd = "get_pinned_tags_stats"
            /\ statsCalls[1].args.folder = statsFolder
            /\ Len(statsCalls[1].args.tags) = Len(statsPins.items)
            /\ \A i \in 1..Len(statsPins.items) :
                  statsPins.items[i] =
                     PinnedTag(statsCalls[1].args.tags[i][1].n, statsCalls[1].args.tags[i][2].n)

C27_Witness ==
    /\ statsOpen /\ statsPending
    /\ statsPins = DefaultPinnedTags
    /\ Len(statsCalls) = 1 /\ Len(statsCalls[1].args.tags) = 5

-----------------------------------------------------------------------------
(* The windowed tag table: TagViewerPage configures a virtualizer with the *)
(* number of filtered rows, a row extent and an overscan, and renders the  *)
(* rows it returns inside a box of the total extent.                       *)

MaxRows == 16

\* faulty variant: the row extent LogViewer configures
estimateSizeLogViewer == 50

\* estimateSize: () => 40
estimateSize == 40

\* overscan: 5
overscan == 5

Viewports == {0, 100, 120}

Smallest(S) == CHOOSE x \in S : \A y \in S : x <= y
Largest(S) == CHOOSE x \in S : \A y \in S : x >= y

\* getTotalSize(): the extent of all rows
TotalExtent(N) == estimateSize * N

\* where row i starts
offsetOf(i) == estimateSize * i

\* the positions the scroll container can be at
ScrollOffsets(N, viewport) ==
    {o \in 0..Largest({0, TotalExtent(N) - viewport}) : o % 40 \in {0, 1, 20, 39}}

\* the rows whose extent overlaps [offset, offset + viewport]
Overlapping(N, offset, viewport) ==
    {i \in 0..(N - 1) : offsetOf(i) <= offset + viewport /\ offsetOf(i + 1) >= offset}

\* window(N, offset, viewportExtent): the overlapping rows, widened by the
\* overscan on each side and kept within the rows there are
window(N, offset, viewport) ==
    LET over == Overlapping(N, offset, viewport)
    IN  IF over = {}
        THEN [startIndex |-> 0, endIndex |-> -1, totalExtent |-> TotalExtent(N)]
        ELSE [startIndex |-> Largest({0, Smallest(over) - overscan}),
              endIndex |-> Smallest({N - 1, Largest(over) + overscan}),
              totalExtent |-> TotalExtent(N)]

\* getVirtualItems(): the rows materialized
VirtualItems ==
    LET w == window(rowCount, scrollOffset, viewportExtent)
    IN  {[index |-> i, start |-> offsetOf(i)] : i \in w.startIndex..w.endIndex}

Clamped(N, offset, viewport) == Smallest({offset, Largest(ScrollOffsets(N, viewport))})

\* the user scrolls the table
Scroll(offset) ==
    /\ page = "explorer"
    /\ offset # scrollOffset
    /\ scrollOffset' = offset
    /\ UNCHANGED <<page, restVars, tagsInput, pipelineVars, explorerVars, statsVars, rowCount,
                   viewportExtent>>

\* the table is given another height
Resize(viewport) ==
    /\ page = "explorer"
    /\ viewport # viewportExtent
    /\ viewportExtent' = viewport
    /\ scrollOffset' = Clamped(rowCount, scrollOffset, viewport)
    /\ UNCHANGED <<page, restVars, tagsInput, pipelineVars, explorerVars, statsVars, rowCount>>

\* count: filteredTags().length changes with the file and the filter
SetCount(N) ==
    /\ page = "explorer"
    /\ N # rowCount
    /\ rowCount' = N
    /\ scrollOffset' = Clamped(N, scrollOffset, viewportExtent)
    /\ UNCHANGED <<page, restVars, tagsInput, pipelineVars, explorerVars, statsVars,
                   viewportExtent>>

NextWindow ==
    \/ \E offset \in ScrollOffsets(rowCount, viewportExtent) : Scroll(offset)
    \/ \E viewport \in Viewports : Resize(viewport)
    \/ \E N \in 0..MaxRows : SetCount(N)

InitWindow ==
    /\ page = "explorer"
    /\ PipelineOff
    /\ storedPins = Null
    /\ ExplorerOff
    /\ StatsOff
    /\ RestOff
    /\ rowCount \in 0..MaxRows
    /\ viewportExtent \in Viewports
    /\ scrollOffset = 0

SpecWindow == InitWindow /\ [][NextWindow]_vars

\* row j overlaps the viewport by more than a point
OverlapsInside(j) == 40 * j < scrollOffset + viewportExtent /\ 40 * (j + 1) > scrollOffset

\* row j at least touches the viewport
OverlapsOrTouches(j) == 40 * j <= scrollOffset + viewportExtent /\ 40 * (j + 1) >= scrollOffset

Near(i, j) == i - j <= 5 /\ j - i <= 5

-----------------------------------------------------------------------------
(* The filter texts and the tag column.                                    *)

\* the filter is found in none of name, value and hexadecimal element
FoundOnlyInGroup(r, f) ==
    /\ ~TextIncludes(ToLowerCase(r.name), f)
    /\ ~TextIncludes(ToLowerCase(r.value), f)
    /\ ~TextIncludes(Radix(r.element, 16), f)

(* C35: a loaded row of group 0x0010, shown as 0010 in the tag column,     *)
(* whose name, value and element text do not contain the filter is left    *)
(* out of the view by the filter "0010" and is in the view by the filter   *)
(* "10": the filter is compared with the unpadded hexadecimal text.        *)
C35_FilterUsesUnpaddedHex ==
    explorer = "running" =>
       \A r \in DicomTags :
          (/\ r.group = 16
           /\ Occurrences(tagRows, r) > 0
           /\ filterText \in {<<"1", "0">>, <<"0", "0", "1", "0">>}
           /\ FoundOnlyInGroup(r, filterText)) =>
             /\ SubSeq(TagColumn(r), 2, 5) = <<"0", "0", "1", "0">>
             /\ filterText = <<"0", "0", "1", "0">> => Occurrences(filteredTags, r) = 0
             /\ filterText = <<"1", "0">> => Occurrences(filteredTags, r) > 0

C35_Witness ==
    /\ explorer = "running"
    /\ tagRows = FileTags("a.dcm")
    /\ filterText = <<"1", "0">>
    /\ filteredTags = <<PatientID, PatientName>>
    /\ FoundOnlyInGroup(PatientID, filterText)

-----------------------------------------------------------------------------
(* The file list of the tag explorer: folders, the file filter and paging. *)

itemsPerPage == 20

\* a folder of more than two pages
ManyFiles == 2 * itemsPerPage + 1

\* the i-th file name of the listing, and its characters
FileName(i) ==
    CASE i = 1 -> "a.dcm"
      [] i = 2 -> "b.dcm"
      [] i % 2 = 1 -> "IM" \o ToString(i) \o ".dcm"
      [] OTHER -> "ct" \o ToString(i) \o ".dcm"

FileChars(i) ==
    (CASE i = 1 -> <<"a">>
       [] i = 2 -> <<"b">>
       [] i % 2 = 1 -> <<"I", "M">> \o NumberText(i)
       [] OTHER -> <<"c", "t">> \o NumberText(i)) \o <<".", "d", "c", "m">>

CharsOf(file) == FileChars(CHOOSE i \in 1..ManyFiles : FileName(i) = file)

Folders == {"/many", "/few", "/none"}

\* what list_dicom_files answers with
Listing(folder) ==
    CASE folder = "/many" -> [i \in 1..ManyFiles |-> FileName(i)]
      [] folder = "/few" -> <<FileName(2)>>
      [] OTHER -> <<>>

ListErrors == {"folder not readable"}

FileFilterTexts == {<<>>, <<"I", "m">>, <<"c", "t">>, <<"z", "z">>}

\* the memo filteredFileList
filteredFileList(files, text) ==
    LET filter == ToLowerCase(text)
    IN  IF filter = <<>> THEN files
        ELSE SelectSeq(files, LAMBDA file : TextIncludes(ToLowerCase(CharsOf(file)), filter))

\* Math.ceil(filteredFileList().length / itemsPerPage)
PageCount(files, text) == (Len(filteredFileList(files, text)) + itemsPerPage - 1) \div itemsPerPage

\* the files listed on the page shown
PageSlice(files, text, p) ==
    LET shown == filteredFileList(files, text)
    IN  SubSeq(shown, (p - 1) * itemsPerPage + 1,
               IF p * itemsPerPage < Len(shown) THEN p * itemsPerPage ELSE Len(shown))

\* faulty variant: the next-page button is never disabled
NextDisabledNever(p, pages) == FALSE

\* disabled of the next-page button
NextDisabled(p, pages) == p >= pages

\* openFolder with a folder chosen in the dialog: setFolderPath(selected), then
\* loadFileList up to its await
openFolder(path) ==
    /\ page = "explorer" /\ explorer = "running"
    /\ Len(listCalls) < MaxCalls
    /\ folderPath' = path
    /\ loading' = TRUE
    /\ listCalls' = Append(listCalls, path)
    /\ UNCHANGED <<page, pipelineVars, windowVars, statsVars, standaloneVars,
                   explorer, storedPins, pinnedTags, tagRows, filterText, filteredTags,
                   filePath, loadError, tagCalls, fileList, fileFilterText, currentPage>>

\* loadFileList after its await resolved: setFileList, setCurrentPage(1), the
\* first file selected and loadTags run up to its await, finally setLoading(false)
ListResolved(i) ==
    /\ page = "explorer" /\ explorer = "running"
    /\ i \in 1..Len(listCalls)
    /\ LET files == Listing(listCalls[i])
       IN  /\ fileList' = files
           /\ currentPage' = 1
           /\ IF files # <<>>
              THEN /\ Len(tagCalls) < MaxCalls
                   /\ filePath' = files[1]
                   /\ loadError' = Null
                   /\ tagCalls' = Append(tagCalls, files[1])
              ELSE UNCHANGED <<filePath, loadError, tagCalls>>
    /\ loading' = FALSE
    /\ listCalls' = RemoveAt(listCalls, i)
    /\ UNCHANGED <<page, pipelineVars, windowVars, statsVars, standaloneVars,
                   explorer, storedPins, pinnedTags, tagRows, filterText, filteredTags,
                   folderPath, fileFilterText>>

\* loadFileList after its await rejected: setError(err), finally
ListRejected(i, err) ==
    /\ page = "explorer" /\ explorer = "running"
    /\ i \in 1..Len(listCalls)
    /\ loadError' = Some(err)
    /\ loading' = FALSE
    /\ listCalls' = RemoveAt(listCalls, i)
    /\ UNCHANGED <<page, pipelineVars, windowVars, statsVars, standaloneVars,
                   explorer, storedPins, pinnedTags, tagRows, filterText, filteredTags,
                   filePath, tagCalls, folderPath, fileList, fileFilterText, currentPage>>

\* onInput of the file search box, shown with a file list; the effect that
\* reads fileFilterText then runs setCurrentPage(1)
setFileFilterText(text) ==
    /\ page = "explorer" /\ explorer = "running"
    /\ fileList # <<>>
    /\ text # fileFilterText
    /\ fileFilterText' = text
    /\ currentPage' = 1
    /\ UNCHANGED <<page, pipelineVars, windowVars, statsVars, standaloneVars, explorerVars,
                   folderPath, fileList, listCalls>>

\* the next-page button
NextPage ==
    /\ page = "explorer" /\ explorer = "running"
    /\ fileList # <<>>
    /\ LET pages == PageCount(fileList, fileFilterText)
       IN  /\ ~NextDisabled(currentPage, pages)
           /\ currentPage' = IF pages < currentPage + 1 THEN pages ELSE currentPage + 1
    /\ UNCHANGED <<page, pipelineVars, windowVars, statsVars, standaloneVars, explorerVars,
                   folderPath, fileList, fileFilterText, listCalls>>

\* the previous-page button
PreviousPage ==
    /\ page = "explorer" /\ explorer = "running"
    /\ fileList # <<>>
    /\ currentPage # 1
    /\ currentPage' = IF 1 > currentPage - 1 THEN 1 ELSE currentPage - 1
    /\ UNCHANGED <<page, pipelineVars, windowVars, statsVars, standaloneVars, explorerVars,
                   folderPath, fileList, fileFilterText, listCalls>>

NextFiles ==
    \/ TagViewerPage
    \/ \E path \in Folders : openFolder(path)
    \/ \E i \in 1..Len(listCalls) : ListResolved(i)
    \/ \E i \in 1..Len(listCalls) : \E err \in ListErrors : ListRejected(i, err)
    \/ \E text \in FileFilterTexts : setFileFilterText(text)
    \/ NextPage
    \/ PreviousPage
    \/ \E i \in 1..Len(tagCalls) : GetTagsResolved(i)
    \/ \E i \in 1..Len(tagCalls) : \E err \in TagErrors : GetTagsRejected(i, err)

SpecFiles == InitExplorerWith({Null}) /\ [][NextFiles]_vars

(* C37: the page shown is at least 1 and at most the number of pages of    *)
(* the filtered file list (1 for an empty list), whatever sequence of      *)
(* page buttons, file-filter changes and folder loads led to it; a change  *)
(* of the file filter and a folder listing that arrives set it to 1.       *)
C37_PageInRange ==
    /\ [](/\ currentPage >= 1
          /\ currentPage <= IF PageCount(fileList, fileFilterText) < 1 THEN 1
                            ELSE PageCount(fileList, fileFilterText))
    /\ [][/\ fileFilterText' # fileFilterText => currentPage' = 1
          /\ \A i \in 1..Len(listCalls) : ListResolved(i) => currentPage' = 1
          /\ fileList' # fileList => currentPage' = 1]_vars

\* the last page of a folder of 41 files
C37_Witness ==
    /\ explorer = "running"
    /\ Len(fileList) = 41 /\ fileFilterText = <<>>
    /\ currentPage = 3
    /\ PageSlice(fileList, fileFilterText, currentPage) = <<"IM41.dcm">>

-----------------------------------------------------------------------------
(* The pin set over several sessions of the explorer.                      *)

\* the page is left or the application closed: the component and its signals
\* are disposed of, a response still to come is dropped, localStorage stays
CloseExplorer ==
    /\ page = "explorer" /\ explorer # "off"
    /\ explorer' = "off"
    /\ pinnedTags' = [j |-> "array", items |-> <<>>]
    /\ tagRows' = <<>>
    /\ filterText' = <<>>
    /\ filteredTags' = <<>>
    /\ filePath' = ""
    /\ loading' = FALSE
    /\ loadError' = Null
    /\ tagCalls' = <<>>
    /\ fileList' = <<>>
    /\ fileFilterText' = <<>>
    /\ currentPage' = 1
    /\ listCalls' = <<>>
    /\ UNCHANGED <<page, pipelineVars, windowVars, statsVars, standaloneVars, storedPins,
                   folderPath>>

NextSessions ==
    \/ NextExplorer
    \/ CloseExplorer

\* a first start, or one after a session that left pins
InitSessions ==
    InitExplorerWith({Null} \cup {Some(JSONstringify(v)) : v \in EarlierPins \ {JArr(<<>>)}})

SpecSessions == InitSessions /\ [][NextSessions]_vars

TextEmptyArray == <<"[", "]">>

(* C34: the default pins are applied only at a start-up that finds no pin  *)
(* key; a started explorer has written the key and the key stays, so a     *)
(* start-up after every tag was unpinned gives the empty pin set, not the  *)
(* default.                                                                *)
C34_DefaultOnlyWithoutKey ==
    /\ [](explorer # "off" => storedPins # Null)
    /\ [][/\ storedPins # Null => storedPins' # Null
          /\ (explorer = "off" /\ explorer' # "off") =>
                /\ storedPins = Null => pinnedTags' = DefaultPinnedTags
                /\ storedPins # Null => pinnedTags' = JSONparse(The(storedPins)).v
                /\ storedPins = Some(TextEmptyArray) => pinnedTags' = JArr(<<>>)
                /\ pinnedTags' = DefaultPinnedTags =>
                      storedPins \in {Null, Some(JSONstringify(DefaultPinnedTags))}]_vars

\* a session started on the empty list an earlier session left
C34_Witness ==
    /\ explorer = "running"
    /\ filePath = "" /\ tagRows = <<>>
    /\ pinnedTags = JArr(<<>>)
    /\ storedPins = Some(TextEmptyArray)

-----------------------------------------------------------------------------
(* The export format selection.                                            *)

(* C36: after any sequence of toggleFormat calls from ["DICOM"] the        *)
(* selection is a non-empty list of distinct formats among DICOM and PNG;  *)
(* toggling the only selected format hands nothing to the parent and the   *)
(* selection stays as it is.                                               *)
C36_FormatsNeverEmpty ==
    /\ [](/\ Len(exportFormats) \in {1, 2}
          /\ \A i \in 1..Len(exportFormats) : exportFormats[i] \in {"DICOM", "PNG"}
          /\ \A i, k \in 1..Len(exportFormats) : i # k => exportFormats[i] # exportFormats[k]
          /\ exportFormats # <<>> => Updated(exportFormats, exportFormats[1]) =
                IF Len(exportFormats) = 1 THEN Null ELSE Some(Tail(exportFormats)))
    /\ [][\A format \in {"DICOM", "PNG"} :
             (exportFormats = <<format>> /\ toggleFormat(format)) =>
                exportFormats' = exportFormats]_vars

\* PNG was added and DICOM removed: PNG is the only format selected
C36_Witness ==
    /\ page = "home" /\ mounted
    /\ exportFormats = <<"PNG">>
    /\ Updated(exportFormats, "PNG") = Null

-----------------------------------------------------------------------------
(* The per-file conversion loop of the earlier App component               *)
(* (startConvert): one remote call for each file and format, the progress  *)
(* counted by the component itself.                                        *)

MaxRuns == 2

\* what the per-file loop and the folder scan leave alone
othersVars == <<page, pipelineVars, explorerVars, windowVars, statsVars, filesVars, detailsVars>>

\* a DicomFileDescriptor of list_dicom_files
Descriptor(i) == [fileName |-> "f" \o ToString(i) \o ".dcm",
                  filePath |-> "/in/f" \o ToString(i) \o ".dcm"]

\* the listings list_dicom_files answers with
Descriptors == {[i \in 1..n |-> Descriptor(i)] : n \in 0..MaxTotal}

ErrorSelectBoth == "select both Input and Output"
ErrorNoFiles == "no .dcm file in the folder"

\* exportFormat() === "DICOM" ? ["DICOM"] : ["DICOM", "PNG"]
formatsToExport(format) ==
    IF format = [j |-> "string", s |-> "DICOM"] THEN <<"DICOM">> ELSE <<"DICOM", "PNG">>

\* toggleFormat of the selector that keeps the list itself: setSelectedFormats
\* and props.onChange, which is setExportFormat, with the updated list
toggleSelectedFormat(format) ==
    /\ page = "legacy"
    /\ Updated(selectedFormats, format) # Null
    /\ selectedFormats' = The(Updated(selectedFormats, format))
    /\ exportFormat' = [j |-> "array", items |-> The(Updated(selectedFormats, format))]
    /\ UNCHANGED <<othersVars, scanVars, dicomProgress, pngProgress, logEntries, convertRuns,
                   dicomError, dicomSummaries>>

\* startConvert up to its first await; the button is never disabled
startConvert ==
    /\ page = "legacy"
    /\ Len(convertRuns) < MaxRuns
    /\ IF Falsy(inputPath) \/ Falsy(outputPath)
       THEN /\ dicomError' = ErrorSelectBoth
            /\ UNCHANGED convertRuns
       ELSE /\ convertRuns' = Append(convertRuns,
                                     [pc |-> "list", files |-> <<>>, k |-> 0,
                                      formats |-> formatsToExport(exportFormat)])
            /\ UNCHANGED dicomError
    /\ UNCHANGED <<othersVars, scanVars, exportFormat, selectedFormats, dicomProgress,
                   pngProgress, logEntries, dicomSummaries>>

\* the run after the file at k is through: the next file, or setDicomSummaries
Advanced(i) ==
    LET r == convertRuns[i]
    IN  IF r.k < Len(r.files)
        THEN /\ convertRuns' = [convertRuns EXCEPT ![i].pc = "save", ![i].k = r.k + 1]
             /\ UNCHANGED dicomSummaries
        ELSE /\ convertRuns' = RemoveAt(convertRuns, i)
             /\ dicomSummaries' = [n \in 1..Len(r.files) |->
                                      [fileName |-> r.files[n].fileName,
                                       filePath |-> r.files[n].filePath, status |-> "ok"]]

\* list_dicom_files resolved: the progress and the log reset, the first file saved
ConvertListed(i, files) ==
    /\ page = "legacy"
    /\ i \in 1..Len(convertRuns) /\ convertRuns[i].pc = "list"
    /\ IF Len(files) = 0
       THEN /\ dicomError' = ErrorNoFiles
            /\ convertRuns' = RemoveAt(convertRuns, i)
            /\ UNCHANGED <<dicomProgress, pngProgress, logEntries>>
       ELSE /\ dicomProgress' = [processed |-> 0, total |-> Len(files)]
            /\ pngProgress' = [processed |-> 0, total |-> Len(files)]
            /\ logEntries' = <<>>
            /\ convertRuns' = [convertRuns EXCEPT ![i].pc = "save", ![i].files = files,
                                                  ![i].k = 1]
            /\ UNCHANGED dicomError
    /\ UNCHANGED <<othersVars, scanVars, exportFormat, selectedFormats, dicomSummaries>>

\* save_anonymized_file resolved
ConvertSaved(i) ==
    /\ page = "legacy"
    /\ i \in 1..Len(convertRuns) /\ convertRuns[i].pc = "save"
    /\ dicomProgress' = [dicomProgress EXCEPT !.processed = @ + 1]
    /\ logEntries' = Append(logEntries,
                            "DICOM: " \o convertRuns[i].files[convertRuns[i].k].fileName
                               \o " processed.")
    /\ IF Includes(convertRuns[i].formats, "PNG")
       THEN /\ convertRuns' = [convertRuns EXCEPT ![i].pc = "png"]
            /\ UNCHANGED dicomSummaries
       ELSE Advanced(i)
    /\ UNCHANGED <<othersVars, scanVars, exportFormat, selectedFormats, pngProgress,
                   dicomError>>

\* convert_to_png resolved
ConvertedToPng(i) ==
    /\ page = "legacy"
    /\ i \in 1..Len(convertRuns) /\ convertRuns[i].pc = "png"
    /\ pngProgress' = [pngProgress EXCEPT !.processed = @ + 1]
    /\ logEntries' = Append(logEntries,
                            "PNG: " \o convertRuns[i].files[convertRuns[i].k].fileName
                               \o " converted.")
    /\ Advanced(i)
    /\ UNCHANGED <<othersVars, scanVars, exportFormat, selectedFormats, dicomProgress,
                   dicomError>>

\* a remote call of the run rejected: startConvert catches nothing and ends
ConvertRejected(i) ==
    /\ page = "legacy"
    /\ i \in 1..Len(convertRuns)
    /\ convertRuns' = RemoveAt(convertRuns, i)
    /\ UNCHANGED <<othersVars, scanVars, exportFormat, selectedFormats, dicomProgress,
                   pngProgress, logEntries, dicomError, dicomSummaries>>

NextLegacy ==
    \/ \E format \in {"DICOM", "PNG"} : toggleSelectedFormat(format)
    \/ startConvert
    \/ \E i \in 1..Len(convertRuns) : \E files \in Descriptors : ConvertListed(i, files)
    \/ \E i \in 1..Len(convertRuns) : ConvertSaved(i)
    \/ \E i \in 1..Len(convertRuns) : ConvertedToPng(i)
    \/ \E i \in 1..Len(convertRuns) : ConvertRejected(i)

\* the pipeline signals of the page, the folders chosen or not
LegacyForm ==
    /\ tagsInput = DefaultTagsInput
    /\ mounted = TRUE
    /\ inputPath \in {"", "/in"}
    /\ outputPath = "/out"
    /\ exportFormats = <<"DICOM">>
    /\ doAnonymize = TRUE
    /\ doConvert = TRUE
    /\ isProcessing = FALSE
    /\ anonymizeProgress = Null
    /\ convertProgress = Null
    /\ progress = Null
    /\ conversionReport = Null
    /\ anonymizationReport = Null
    /\ logs = <<>>
    /\ listenPc = 0
    /\ listeners = {}
    /\ cleanups = {}
    /\ pending = <<>>
    /\ remote = <<>>
    /\ run = NoRun
    /\ attempt = "none"

InitLegacy ==
    /\ page = "legacy"
    /\ LegacyForm
    /\ storedPins = Null
    /\ ExplorerOff
    /\ WindowOff
    /\ StatsOff
    /\ RestOff

SpecLegacy == InitLegacy /\ [][NextLegacy]_vars

(* C31: in every reachable state of the per-file loop the processed count  *)
(* of dicomProgress and of pngProgress is at most its total, also when     *)
(* startConvert is invoked while an earlier invocation is at its files.    *)
C31_ProcessedWithinTotal ==
    /\ dicomProgress.processed <= dicomProgress.total
    /\ pngProgress.processed <= pngProgress.total

-----------------------------------------------------------------------------
(* The folder scan of the earliest App component                           *)
(* (selectAndReadDicomFolder): the files are read in batches, each read    *)
(* giving one summary.                                                     *)

BATCH_SIZE == 5

ErrorCancelled == "no folder chosen"
ReadErrors == {"not a DICOM file"}

\* the listings list_dicom_files answers with: up to MaxTotal files, and one
\* file more than a batch
ScanListings ==
    {[i \in 1..n |-> Descriptor(i)] : n \in (0..MaxTotal) \cup {BATCH_SIZE + 1}}

\* files.slice(i, i + BATCH_SIZE), by the positions it takes
BatchOf(files, start) ==
    SubSeq(files, start + 1,
           IF start + BATCH_SIZE < Len(files) THEN start + BATCH_SIZE ELSE Len(files))

\* what processFile returns for a read that resolved (outcome Null) or
\* rejected with a message
Summary(file, outcome) ==
    <<[filePath |-> file.filePath, fileName |-> file.fileName,
       status |-> IF outcome = Null THEN "ok" ELSE "error", message |-> outcome]>>

\* the finally of selectAndReadDicomFolder
ScanFinally ==
    /\ isProcessing' = FALSE
    /\ currentFileName' = ""

scanOthers == <<page, tagsInput, mounted, formVars, progVars, repVars, logs, listenPc,
                listeners, cleanups, callVars, attempt, explorerVars, windowVars, statsVars,
                filesVars, legacyVars, detailsVars>>

\* the button, enabled while isProcessing is false: the state reset, the
\* folder dialog opened
selectAndReadDicomFolder ==
    /\ page = "scan"
    /\ ~isProcessing
    /\ Len(scanRuns) < MaxRuns
    /\ dicomSummaries' = <<>>
    /\ dicomError' = ""
    /\ processedFiles' = 0
    /\ totalFiles' = 0
    /\ currentFileName' = ""
    /\ scanRuns' = Append(scanRuns, [pc |-> "dialog", files |-> <<>>, start |-> 0,
                                     settled |-> <<>>, results |-> <<>>])
    /\ UNCHANGED <<scanOthers, isProcessing>>

\* the dialog closed without a folder
DialogCancelled(i) ==
    /\ page = "scan"
    /\ i \in 1..Len(scanRuns) /\ scanRuns[i].pc = "dialog"
    /\ dicomError' = ErrorCancelled
    /\ ScanFinally
    /\ scanRuns' = RemoveAt(scanRuns, i)
    /\ UNCHANGED <<scanOthers, dicomSummaries, totalFiles, processedFiles>>

\* the dialog closed with a folder: setIsProcessing(true), list_dicom_files called
DialogSelected(i) ==
    /\ page = "scan"
    /\ i \in 1..Len(scanRuns) /\ scanRuns[i].pc = "dialog"
    /\ isProcessing' = TRUE
    /\ scanRuns' = [scanRuns EXCEPT ![i].pc = "list"]
    /\ UNCHANGED <<scanOthers, dicomSummaries, dicomError, totalFiles, processedFiles,
                   currentFileName>>

\* batch.map(processFile): each call sets currentFileName and issues its read
BatchStarted(i, files, start, results) ==
    /\ currentFileName' = BatchOf(files, start)[Len(BatchOf(files, start))].fileName
    /\ scanRuns' = [scanRuns EXCEPT
                       ![i] = [pc |-> "batch", files |-> files, start |-> start,
                               settled |-> [n \in 1..Len(BatchOf(files, start)) |-> Null],
                               results |-> results]]

\* list_dicom_files resolved
ScanListed(i, files) ==
    /\ page = "scan"
    /\ i \in 1..Len(scanRuns) /\ scanRuns[i].pc = "list"
    /\ IF Len(files) = 0
       THEN /\ dicomError' = ErrorNoFiles
            /\ ScanFinally
            /\ scanRuns' = RemoveAt(scanRuns, i)
            /\ UNCHANGED totalFiles
       ELSE /\ totalFiles' = Len(files)
            /\ BatchStarted(i, files, 0, <<>>)
            /\ UNCHANGED <<dicomError, isProcessing>>
    /\ UNCHANGED <<scanOthers, dicomSummaries, processedFiles>>

\* list_dicom_files rejected: the catch, then the finally
ScanListRejected(i, err) ==
    /\ page = "scan"
    /\ i \in 1..Len(scanRuns) /\ scanRuns[i].pc = "list"
    /\ dicomError' = err
    /\ ScanFinally
    /\ scanRuns' = RemoveAt(scanRuns, i)
    /\ UNCHANGED <<scanOthers, dicomSummaries, totalFiles, processedFiles>>

RECURSIVE Flattened(_)
Flattened(parts) == IF parts = <<>> THEN <<>> ELSE The(Head(parts)) \o Flattened(Tail(parts))

\* read_dicom_file of the n-th file of the batch settled: its summary, the
\* finally of processFile; once the batch is through, the next batch or the
\* summaries shown and the finally
ReadSettled(i, n, outcome) ==
    /\ page = "scan"
    /\ i \in 1..Len(scanRuns) /\ scanRuns[i].pc = "batch"
    /\ n \in 1..Len(scanRuns[i].settled) /\ scanRuns[i].settled[n] = Null
    /\ processedFiles' = processedFiles + 1
    /\ LET r       == scanRuns[i]
           settled == [r.settled EXCEPT
                          ![n] = Some(Summary(BatchOf(r.files, r.start)[n], outcome))]
           results == r.results \o Flattened(settled)
       IN  IF \E m \in 1..Len(settled) : settled[m] = Null
           THEN /\ scanRuns' = [scanRuns EXCEPT ![i].settled = settled]
                /\ UNCHANGED <<dicomSummaries, isProcessing, currentFileName>>
           ELSE IF r.start + BATCH_SIZE < Len(r.files)
           THEN /\ BatchStarted(i, r.files, r.start + BATCH_SIZE, results)
                /\ UNCHANGED <<dicomSummaries, isProcessing>>
           ELSE /\ dicomSummaries' = results
                /\ ScanFinally
                /\ scanRuns' = RemoveAt(scanRuns, i)
    /\ UNCHANGED <<scanOthers, dicomError, totalFiles>>

NextScan ==
    \/ selectAndReadDicomFolder
    \/ \E i \in 1..Len(scanRuns) : DialogCancelled(i)
    \/ \E i \in 1..Len(scanRuns) : DialogSelected(i)
    \/ \E i \in 1..Len(scanRuns) : \E files \in ScanListings : ScanListed(i, files)
    \/ \E i \in 1..Len(scanRuns) : \E err \in ListErrors : ScanListRejected(i, err)
    \/ \E i \in 1..Len(scanRuns) : \E n \in 1..BATCH_SIZE :
          \E outcome \in {Null} \cup {Some(err) : err \in ReadErrors} :
             ReadSettled(i, n, outcome)

InitScan ==
    /\ page = "scan"
    /\ PipelineOff
    /\ storedPins = Null
    /\ ExplorerOff
    /\ WindowOff
    /\ StatsOff
    /\ RestOff

SpecScan == InitScan /\ [][NextScan]_vars

(* C32: when a scan has ended and shows summaries, there is one summary    *)
(* for each listed file, in listing order, a file whose read was rejected  *)
(* has a summary of status "error", and processedFiles equals totalFiles;  *)
(* with no scan under way processedFiles equals totalFiles.                *)
C32_OneSummaryPerFile ==
    scanRuns = <<>> =>
       /\ processedFiles = totalFiles
       /\ dicomSummaries # <<>> =>
             /\ Len(dicomSummaries) = totalFiles
             /\ \A n \in 1..Len(dicomSummaries) :
                   /\ dicomSummaries[n].filePath = Descriptor(n).filePath
                   /\ dicomSummaries[n].status = "ok" <=> dicomSummaries[n].message = Null

-----------------------------------------------------------------------------
(* The tag-details page (TagViewerDetailsPage): fetchDetails subscribes to *)
(* the progress events of the one remote call it makes.                    *)

\* parseInt(text) with no radix: "0x" starts a hexadecimal number, else the
\* decimal digits the text starts with are read
parseInt(text) ==
    LET s1  == TrimStart(text)
        neg == Len(s1) > 0 /\ s1[1] = "-"
        s2  == IF Len(s1) > 0 /\ s1[1] \in {"+", "-"} THEN Tail(s1) ELSE s1
        hex == Len(s2) >= 2 /\ s2[1] = "0" /\ s2[2] \in {"x", "X"}
        z   == IF hex THEN HexPrefix(SubSeq(s2, 3, Len(s2))) ELSE DecPrefix(s2)
        n   == IF hex THEN HexNumber(z) ELSE DecNumber(z)
    IN  IF Len(z) = 0 THEN NaN ELSE Num(IF neg THEN 0 - n ELSE n)

\* the route parameters of /tags/:group/:element
RouteParams ==
    {[group |-> <<"1", "6">>, element |-> <<"3", "2">>],
     [group |-> <<"8">>, element |-> <<"x">>],
     [group |-> <<>>, element |-> <<"1", "6">>]}

DetailsFolders == {"", "/scans"}

\* the TagDetails get_tag_details answers with
TagDetailsResults ==
    {[group |-> 16, element |-> 32, name |-> "PatientID", values |-> v] :
        v \in {<<>>, <<[value |-> "a7", count |-> 1, files |-> <<"a.dcm">>]>>}}

DetailsErrors == {"folder not readable"}

\* payloads of tag_details_progress
DetailsPayloads == {[current |-> c, total |-> t] : c \in 0..MaxTotal, t \in 1..MaxTotal}

\* progress events delivered so far
EventsDelivered(trace) == Cardinality({k \in 1..Len(trace) : trace[k].op = "event"})

\* faulty variant: the subscription is left in place
UnlistenNever(names) == names

\* unlisten(): the handler of tag_details_progress is taken off
Unlisten(names) == names \ {"tag_details_progress"}

detailsOthers == <<page, tagsInput, mounted, formVars, isProcessing, anonymizeProgress,
                   convertProgress, repVars, logs, listenPc, cleanups, callVars, attempt,
                   explorer, storedPins, pinnedTags, tagRows, filterText, filteredTags,
                   filePath, tagCalls, windowVars, statsVars, filesVars, legacyVars,
                   scanVars, dicomError, dicomSummaries, params>>

\* the component function and onMount: fetchDetails up to its first await
TagViewerDetailsPage ==
    /\ page = "details" /\ detailsPc = "off"
    /\ IF Falsy(folderPath) \/ params.group = <<>> \/ params.element = <<>>
       THEN /\ detailsPc' = "returned"
            /\ UNCHANGED <<loading, loadError, progress>>
       ELSE /\ loading' = TRUE
            /\ loadError' = Null
            /\ progress' = Null
            /\ detailsPc' = "listening"
    /\ UNCHANGED <<detailsOthers, listeners, details, detailsTrace>>

\* the import and listen() resolved: the handler is registered, then
\* get_tag_details is called
DetailsListening ==
    /\ page = "details" /\ detailsPc = "listening"
    /\ listeners' = listeners \cup {"tag_details_progress"}
    /\ detailsTrace' = detailsTrace \o
          <<[op |-> "listen", with |-> "tag_details_progress"],
            [op |-> "invoke",
             with |-> Call("get_tag_details",
                           [folder |-> folderPath, group |-> parseInt(params.group),
                            element |-> parseInt(params.element)])]>>
    /\ detailsPc' = "calling"
    /\ UNCHANGED <<detailsOthers, loading, loadError, progress, details>>

\* the import or listen() rejected: fetchDetails ends before its try
DetailsListenRejected ==
    /\ page = "details" /\ detailsPc = "listening"
    /\ detailsPc' = "failed"
    /\ UNCHANGED <<detailsOthers, listeners, loading, loadError, progress, details,
                   detailsTrace>>

\* the handler of tag_details_progress: setProgress(event.payload)
TagDetailsProgress(payload) ==
    /\ page = "details" /\ "tag_details_progress" \in listeners
    /\ EventsDelivered(detailsTrace) < MaxLogs
    /\ progress' = Some(payload)
    /\ detailsTrace' = Append(detailsTrace, [op |-> "event", with |-> payload])
    /\ UNCHANGED <<detailsOthers, listeners, loading, loadError, details, detailsPc>>

\* the finally of fetchDetails
DetailsFinally ==
    /\ listeners' = Unlisten(listeners)
    /\ detailsTrace' = Append(detailsTrace, [op |-> "unlisten", with |-> "tag_details_progress"])
    /\ loading' = FALSE
    /\ progress' = Null
    /\ detailsPc' = "settled"

\* get_tag_details resolved: setDetails(result), finally
DetailsResolved(result) ==
    /\ page = "details" /\ detailsPc = "calling"
    /\ details' = Some(result)
    /\ DetailsFinally
    /\ UNCHANGED <<detailsOthers, loadError>>

\* get_tag_details rejected: setError(err), finally
DetailsRejected(err) ==
    /\ page = "details" /\ detailsPc = "calling"
    /\ loadError' = Some(err)
    /\ DetailsFinally
    /\ UNCHANGED <<detailsOthers, details>>

NextDetails ==
    \/ TagViewerDetailsPage
    \/ DetailsListening
    \/ DetailsListenRejected
    \/ \E payload \in DetailsPayloads : TagDetailsProgress(payload)
    \/ \E result \in TagDetailsResults : DetailsResolved(result)
    \/ \E err \in DetailsErrors : DetailsRejected(err)

InitDetails ==
    /\ page = "details"
    /\ PipelineOff
    /\ storedPins = Null
    /\ ExplorerOff
    /\ WindowOff
    /\ StatsOff
    /\ folderPath \in DetailsFolders
    /\ fileList = <<>>
    /\ fileFilterText = <<>>
    /\ currentPage = 1
    /\ listCalls = <<>>
    /\ exportFormat = [j |-> "string", s |-> "DICOM"]
    /\ selectedFormats = <<"DICOM">>
    /\ dicomProgress = [processed |-> 0, total |-> 0]
    /\ pngProgress = [processed |-> 0, total |-> 0]
    /\ logEntries = <<>>
    /\ dicomError = ""
    /\ dicomSummaries = <<>>
    /\ convertRuns = <<>>
    /\ totalFiles = 0
    /\ processedFiles = 0
    /\ currentFileName = ""
    /\ scanRuns = <<>>
    /\ params \in RouteParams
    /\ details = Null
    /\ detailsPc = "off"
    /\ detailsTrace = <<>>

SpecDetails == InitDetails /\ [][NextDetails]_vars

\* the steps of fetchDetails at the gateway, the events delivered left out
GatewaySteps ==
    LET steps == SelectSeq(detailsTrace, LAMBDA step : step.op # "event")
    IN  [k \in 1..Len(steps) |-> steps[k].op]

(* C33: fetchDetails registers the tag_details_progress subscription       *)
(* before it issues the remote call, the subscription is in place while    *)
(* the call is in flight, and once the call has settled, resolved or       *)
(* rejected, the subscription is removed, loading is false and progress is *)
(* null.                                                                   *)
C33_SubscriptionAroundCall ==
    /\ detailsPc \in {"off", "returned", "listening", "failed"} =>
          /\ "tag_details_progress" \notin listeners
          /\ GatewaySteps = <<>>
    /\ detailsPc = "calling" =>
          /\ "tag_details_progress" \in listeners
          /\ GatewaySteps = <<"listen", "invoke">>
    /\ detailsPc = "settled" =>
          /\ "tag_details_progress" \notin listeners
          /\ GatewaySteps = <<"listen", "invoke", "unlisten">>
          /\ detailsTrace[Len(detailsTrace)].op = "unlisten"
          /\ ~loading
          /\ progress = Null

\* the call rejected after two progress events were shown
C33_Witness ==
    /\ detailsPc = "settled"
    /\ loadError # Null
    /\ EventsDelivered(detailsTrace) = 2
    /\ progress = Null /\ ~loading /\ listeners = {}

====
